---- MODULE Spec2Model ----
(***************************************************************************)
(* Model of the LED rendering engine of src/ambilight.py: the protocol     *)
(* encoder build_and_send, the temporal smoother and the effect generators *)
(* of LedEngine, and the LedEngine start/stop/disconnect/_loop state       *)
(* machine with its worker thread.                                         *)
(*                                                                         *)
(* A LedFrame is a function 0..35 -> <<r, g, b>>, a wire buffer a function *)
(* 0..191 -> 0..255, both indexed from 0 as in the source.                 *)
(***************************************************************************)
EXTENDS Integers, Sequences, FiniteSets, TLC

VARIABLES
    \* ---- encoder harness (pure function build_and_send) ----
    encLeds,       \* the LedFrame given to build_and_send
    encCnt,        \* the counter argument
    encMirror,     \* the mirror argument
    encReports,    \* the reports handed to out.set_raw_data/out.send, in order
    encOrig,       \* the frame the harness started from
    encFlips,      \* how many times the mirror transformation was applied to encLeds
    encDx,         \* DXLightController._build_buffer's result and the counter it left
    \* ---- smoother harness (the blend step of LedEngine._loop) ----
    smCur,         \* the retained frame cur
    smTarget,      \* the constant target frame leds
    smAlpha,       \* the smoothing slider value in percent (alpha = smAlpha / 100)
    smTicks,       \* blend steps applied so far: 0 before the first, then 1..MaxSmTicks cyclically
    \* ---- effect generator harness ----
    fxMode,        \* the generator that produced fxOut, "none" before the call
    fxT,           \* elapsed time t in sevenths of a second
    fxSpeed,       \* effect_speed (slider value)
    fxBri,         \* brightness slider value in percent
    fxColor,       \* static_color
    fxOut,         \* the LedFrame returned
    \* ---- zone sampler harness ----
    sfFrame,       \* the frame given to _sample_from_frame
    sfCrop,        \* self.crop as <<left, top, right, bottom>> in percent
    sfEdge,        \* self.edge_pct in percent
    sfBri,         \* the brightness argument in percent
    sfOut,         \* the list returned, << >> before the call
    \* ---- pacing harness ----
    paceFps,       \* target_fps of the last tick
    paceElapsed,   \* the processing time the last tick measured
    paceOver,      \* the time the last tick spent after measuring
    paceSleeps,    \* the last tick called time.sleep
    paceSlept,     \* the time the last tick slept
    paceGap,       \* the time from the start of the last tick to the start of the next
    \* ---- crop configuration harness (AmbilightGUI) ----
    cfMon,         \* <<mon_w, mon_h>>
    cfAspect,      \* aspect_var
    cfSliders,     \* <<crop_l_var, crop_t_var, crop_r_var, crop_b_var>>
    cfDrag,        \* the slider values kept in _drag_data, << >> before the first click
    cfCrop,        \* LedEngine.crop as <<left, top, right, bottom>>, each <<num, den>>
    \* ---- LedEngine fields ----
    running, thread, device, out, cnt, connected,
    mode, static_color, brightness, smooth, mirror,
    \* thread: 0 for None, else the worker slot; device, out: FALSE for None;
    \* brightness and smooth hold the slider percentages
    \* ---- AmbilightGUI: the Tk variables behind the widgets ----
    mode_var, smooth_var, bri_var, mirror_var,
    \* ---- the HID device ----
    present,       \* a device with the fixed VID/PID is plugged in
    handleOpen,    \* the handle opened by connect() has not been closed
    handleDead,    \* the device of the open handle was unplugged: calls on it raise
    \* ---- threads ----
    pc,            \* where each thread is
    op,            \* the method the controlling thread is inside
    cur,           \* _loop's local cur, per worker
    snap,          \* _loop's locals mode, bri, alpha, mirror of the current tick
    buf,           \* build_and_send's local buf, per thread
    ri,            \* build_and_send's loop index i, per thread
    gsRgb,         \* _gen_static's locals r, g, b, per worker (<< >> outside _gen_static)
    nxt,           \* the value (self.cnt + 1) & 0xFF computed and not yet stored, per worker
    raw,           \* the data stored in the output report object by set_raw_data
    tout,          \* build_and_send's argument out (FALSE for None), per thread
    \* ---- history ----
    calls,         \* the start / stop / disconnect calls made so far (a disconnect without device left out)
    handed,        \* reports the thread's current build_and_send passed to set_raw_data
    sent,          \* reports the send() calls of the thread's current build_and_send transmitted
    sentCnts,      \* counter bytes of the last two completely sent logical frames
    sessionFailed, \* a tick's send raised since the device was last opened
    acq,           \* how the worker's current tick got its frame: "ok", "fail", "none"
    tgt,           \* the target frame leds of the worker's current tick
    prevCur,       \* cur before the current tick's blend
    lastGood      \* the sampled frame of the worker's last successful acquisition

varsEnc == <<encLeds, encCnt, encMirror, encReports, encOrig, encFlips, encDx>>
varsSm  == <<smCur, smTarget, smAlpha, smTicks>>
varsFx  == <<fxMode, fxT, fxSpeed, fxBri, fxColor, fxOut>>

varsEng == <<running, thread, device, out, cnt, connected, calls,
             mode, static_color, brightness, smooth, mirror,
             mode_var, smooth_var, bri_var, mirror_var,
             present, handleOpen, handleDead, raw, pc, op, cur, snap, gsRgb, nxt,
             buf, ri, tout, handed, sent, sentCnts, sessionFailed, acq, tgt, prevCur, lastGood>>
varsSamp == <<sfFrame, sfCrop, sfEdge, sfBri, sfOut>>
varsPace == <<paceFps, paceElapsed, paceOver, paceSleeps, paceSlept, paceGap>>
varsCrop == <<cfMon, cfAspect, cfSliders, cfDrag, cfCrop>>
harnessVars == <<varsEnc, varsSm, varsFx, varsSamp, varsPace, varsCrop>>

vars == <<varsEnc, varsSm, varsFx, varsSamp, varsPace, varsCrop, varsEng>>

(***************************************************************************)
(* Bounds of the model.                                                    *)
(***************************************************************************)
MaxSeed == 2          \* ramp frames Ramp(0) .. Ramp(MaxSeed)
MaxSmTicks == 3       \* the smoother harness counts its ticks up to here
MaxT == 5             \* effect generators are called at t = 1/7 .. MaxT/7 seconds
MaxWorkers == 2       \* _loop threads that start() creates
MaxCnt == 2           \* a tick starts only while the frame counter is below this
MaxGrad == 1          \* the sampler harness draws gradient frames with seeds 0..MaxGrad
MaxElapsed == 13      \* the pacing harness draws processing times 0..MaxElapsed
MaxLate == 1          \* time spent after measuring, and time slept beyond the wait
MaxCalls == 3         \* start / stop / disconnect calls made on the engine
MaxCancelCalls == 2   \* the calls made in the runs checked for termination of the loop
MaxFrameCalls == 1    \* the calls made in the runs of SpecStatic and SpecCapture
MaxPairCalls == 2     \* the calls made in the runs of SpecCalls
MaxPairCnt == 1       \* in SpecCalls, SpecThreads and SpecCancel a tick starts only while the frame counter is below this

(***************************************************************************)
(* Program constants.                                                      *)
(***************************************************************************)
N == 12
HEADER == <<83, 67, 0, 177, 0, 128, 1>>     \* 0x53 0x43 0x00 0xB1 0x00 0x80 0x01
NumLeds == 36
BufLen == 192
ChunkLen == 64

Black == <<0, 0, 0>>
BlackFrame == [i \in 0..(NumLeds - 1) |-> Black]

(***************************************************************************)
(* Python list helpers.                                                    *)
(***************************************************************************)
\* xs[lo:hi]
Slice(xs, lo, hi) == [i \in 0..(hi - lo - 1) |-> xs[lo + i]]

\* xs[::-1] / reversed(xs) for a list of length n
Rev(xs, n) == [i \in 0..(n - 1) |-> xs[n - 1 - i]]

(***************************************************************************)
(* build_and_send: zone assembly (lines 185-194).                          *)
(***************************************************************************)
LeftSrc(leds, mir) ==
    IF mir THEN Rev(Slice(leds, 24, 36), N) ELSE Slice(leds, 0, 12)

RightSrcNoRev(leds, mir) ==
    IF mir THEN Slice(leds, 0, 12) ELSE Slice(leds, 24, 36)

RightSrc(leds, mir) ==
    IF mir THEN Rev(Slice(leds, 0, 12), N) ELSE Slice(leds, 24, 36)

TopSrc(leds, mir) ==
    IF mir THEN Rev(Slice(leds, 12, 24), N) ELSE Slice(leds, 12, 24)

\* a = left + top_src + list(right_src), left = [left_src[11-i] for i in range(N)]
Assemble(leds, mir) ==
    LET left_src  == LeftSrc(leds, mir)
        right_src == RightSrc(leds, mir)
        top_src   == TopSrc(leds, mir)
        left      == [i \in 0..(N - 1) |-> left_src[11 - i]]
    IN  [k \in 0..(NumLeds - 1) |->
            IF k < N THEN left[k]
            ELSE IF k < 2 * N THEN top_src[k - N]
            ELSE right_src[k - 2 * N]]

(***************************************************************************)
(* build_and_send: the 192-byte buffer (lines 182-184, 195-202).           *)
(***************************************************************************)
\* for s in (1, 12, 24)
BlockStartShifted(b) == IF b = 0 THEN 0 ELSE IF b = 1 THEN 12 ELSE 24

BlockStart(b) == IF b = 0 THEN 1 ELSE IF b = 1 THEN 12 ELSE 24

\* The two nested loops, flattened: k = 12*block + i; p and c are the loop's
\* running write position and index counter.
RECURSIVE WriteLeds(_, _, _, _, _)
WriteLeds(bytes, a, k, p, c) ==
    IF k = 3 * 12 THEN bytes
    ELSE LET s   == BlockStart(k \div 12)
             i   == k % 12
             led == a[s + i]
             b1  == [bytes EXCEPT ![p]     = c % 256,
                                ![p + 1] = (c + 1) % 256,
                                ![p + 2] = led[1],
                                ![p + 3] = led[2],
                                ![p + 4] = led[3]]
         IN  WriteLeds(b1, a, k + 1, p + 5, c + 2)

BuildBuf(leds, counter, mir) ==
    LET a    == Assemble(leds, mir)
        buf0 == [j \in 0..(BufLen - 1) |-> IF j < 7 THEN HEADER[j + 1] ELSE 0]
        buf1 == [buf0 EXCEPT ![4] = counter % 256]
        buf2 == [buf1 EXCEPT ![7] = a[0][1], ![8] = a[0][2], ![9] = a[0][3]]
    IN  WriteLeds(buf2, a, 0, 10, 1)

\* [0x00] + list(buf[i*64:(i+1)*64])   (line 204), as a sequence of 65 bytes
ReportNoId(bytes, i) == [j \in 1..ChunkLen |-> bytes[i * ChunkLen + j - 1]]

Report(bytes, i) == <<0>> \o [j \in 1..ChunkLen |-> bytes[i * ChunkLen + j - 1]]

\* the three reports of one call, in the order the loop of lines 203-205 sends them
Reports(bytes) == <<Report(bytes, 0), Report(bytes, 1), Report(bytes, 2)>>

(***************************************************************************)
(* Encoder harness: Init draws the arguments, EncSend applies              *)
(* build_and_send to a transport that accepts every report, EncMirrorFrame *)
(* replaces the frame by its mirror image.                             *)
(***************************************************************************)
\* a frame with 36 pairwise different colours
Ramp(seed) ==
    [i \in 0..(NumLeds - 1) |->
        << (seed + 7 * i) % 256, (3 * seed + 5 * i + 1) % 256, (255 - i - seed) % 256 >>]

\* a frame with one lit LED
OneHot(i, col) == [k \in 0..(NumLeds - 1) |-> IF k = i THEN col ELSE Black]

EncColors == { <<255, 0, 80>>, <<1, 2, 3>> }

EncFrames ==
    { Ramp(s) : s \in 0..MaxSeed }
    \cup { OneHot(i, col) : i \in 0..(NumLeds - 1), col \in EncColors }
    \cup { [k \in 0..(NumLeds - 1) |-> col] : col \in EncColors }

EncCnts == {0, 1, 128, 255}

\* the decoder of the wire format: the 192 bytes carried by three reports
UnReport(reports) ==
    [j \in 0..(BufLen - 1) |-> reports[(j \div ChunkLen) + 1][(j % ChunkLen) + 2]]

\* the assembled sequence a stored in a buffer: a[0] at 7..9, a[1..12] in block 1,
\* a[12..23] in block 2, a[24..35] in block 3
Entry(bytes, e) == << bytes[10 + 5 * e + 2], bytes[10 + 5 * e + 3], bytes[10 + 5 * e + 4] >>

AssembledOf(bytes) ==
    [k \in 0..(NumLeds - 1) |->
        IF k = 0 THEN << bytes[7], bytes[8], bytes[9] >>
        ELSE IF k < 12 THEN Entry(bytes, k - 1)
        ELSE Entry(bytes, k)]

\* the LedFrame whose assembly under the given mirror flag is a
Unassemble(a, mir) ==
    [k \in 0..(NumLeds - 1) |->
        IF mir
        THEN IF k < 12 THEN a[35 - k]
             ELSE IF k < 24 THEN a[35 - k]
             ELSE a[k - 24]
        ELSE IF k < 12 THEN a[11 - k]
             ELSE a[k]]

Decode(reports, mir) == Unassemble(AssembledOf(UnReport(reports)), mir)

\* M(F): the frame whose non-mirrored assembled order is the mirrored one of F
MirrorFrame(leds) == Unassemble(Assemble(leds, TRUE), FALSE)

\* the value of encDx before _build_buffer is called
NoDx == << >>

InitEnc ==
    /\ encLeds \in EncFrames
    /\ encOrig = encLeds
    /\ encCnt \in EncCnts
    /\ encMirror \in BOOLEAN
    /\ encReports = << >>
    /\ encFlips = 0
    /\ encDx = NoDx

EncSend ==
    /\ encReports = << >>
    /\ encReports' = Reports(BuildBuf(encLeds, encCnt, encMirror))
    /\ UNCHANGED <<encLeds, encCnt, encMirror, encOrig, encFlips, encDx>>

EncMirrorFrame ==
    /\ encReports = << >>
    /\ encDx = NoDx
    /\ encFlips < 2
    /\ encLeds' = MirrorFrame(encLeds)
    /\ encFlips' = encFlips + 1
    /\ UNCHANGED <<encCnt, encMirror, encReports, encOrig, encDx>>

(***************************************************************************)
(* The command-line controller's encoder: DXLightController._build_buffer  *)
(* (src/dx_light_control.py, lines 77-137), called with self.leds = leds   *)
(* and self.counter = counter.                                             *)
(***************************************************************************)
DX_HEADER == <<83, 67, 0, 177, 191, 128, 1>>   \* 0x53 0x43 0x00 0xB1 0xBF 0x80 0x01

BUFFER_SIZE == 192

\* write_block(start_idx) from its i-th LED on; ptr and led_counter are the
\* nonlocal write position and index counter
RECURSIVE write_block(_, _, _, _, _, _)
write_block(bytes, all_leds, start_idx, i, ptr, led_counter) ==
    IF i = 12 THEN bytes
    ELSE LET led == all_leds[start_idx + i]
             b1  == [bytes EXCEPT ![ptr]     = led_counter % 256,
                                  ![ptr + 1] = (led_counter + 1) % 256,
                                  ![ptr + 2] = led[1] % 256,
                                  ![ptr + 3] = led[2] % 256,
                                  ![ptr + 4] = led[3] % 256]
         IN  write_block(b1, all_leds, start_idx, i + 1, ptr + 5, led_counter + 2)

\* the buffer with the header's counter byte left as it is in HEADER
build_buffer_no_counter(leds, counter) ==
    [j \in 0..(BUFFER_SIZE - 1) |-> IF j < 7 THEN DX_HEADER[j + 1] ELSE 0]

\* the bytearray _build_buffer returns
build_buffer(leds, counter) ==
    LET left_leds  == Rev(Slice(leds, 0, 12), 12)
        top_leds   == Slice(leds, 12, 24)
        right_leds == Slice(leds, 24, 36)
        all_leds   == [k \in 0..35 |->
                          IF k < 12 THEN left_leds[k]
                          ELSE IF k < 24 THEN top_leds[k - 12]
                          ELSE right_leds[k - 24]]
        buf0 == [j \in 0..(BUFFER_SIZE - 1) |-> IF j < 7 THEN DX_HEADER[j + 1] ELSE 0]
        buf1 == [buf0 EXCEPT ![4] = counter % 256]
        buf2 == [buf1 EXCEPT ![7] = all_leds[0][1] % 256,
                             ![8] = all_leds[0][2] % 256,
                             ![9] = all_leds[0][3] % 256]
        blk1 == write_block(buf2, all_leds, 1, 0, 10, 1)
        blk2 == write_block(blk1, all_leds, 12, 0, 70, 25)
    IN  write_block(blk2, all_leds, 24, 0, 130, 49)

\* _build_buffer on a controller with self.leds = encLeds, self.counter = encCnt:
\* the buffer returned and self.counter after the call (line 94)
DxBuildBuffer ==
    /\ encDx = NoDx
    /\ encDx' = [buf |-> build_buffer(encLeds, encCnt), counter |-> (encCnt + 1) % 256]
    /\ UNCHANGED <<encLeds, encCnt, encMirror, encReports, encOrig, encFlips>>

(***************************************************************************)
(* Numbers.  The source computes in double precision floats and converts   *)
(* with int(), which truncates toward zero.  The model computes the same   *)
(* quotients exactly; its inputs are drawn from values for which the exact *)
(* quotient and the double computation truncate to the same integer.       *)
(***************************************************************************)
\* int(num / den) for den > 0
Trunc(num, den) == IF num >= 0 THEN num \div den ELSE -((-num) \div den)

Uniform(col) == [i \in 0..(NumLeds - 1) |-> col]

IsUniform(frame) == \A i \in DOMAIN frame : frame[i] = frame[0]

(***************************************************************************)
(* Temporal smoother: LedEngine._loop lines 425-427.                       *)
(*   f = 1.0 - alpha                                                       *)
(*   cur  = [(int(c1+(t1-c1)*f), ...) for (c1,c2,c3),(t1,t2,t3) in zip(..)] *)
(* alpha = alphaPct / 100 (AmbilightGUI._update_loop), so                  *)
(* c + (t-c)*f = (100*c + (t-c)*(100-alphaPct)) / 100.                     *)
(***************************************************************************)
\* the blend stepping past the target, by 1 + alpha instead of 1 - alpha
BlendChannelOver(c, t, alphaPct) ==
    Trunc(100 * c + (t - c) * (100 + alphaPct), 100)

\* the blend weighting the step by alpha instead of 1 - alpha
BlendChannelSwapped(c, t, alphaPct) ==
    Trunc(100 * c + (t - c) * alphaPct, 100)

BlendChannel(c, t, alphaPct) ==
    Trunc(100 * c + (t - c) * (100 - alphaPct), 100)

Blend(prev, leds, alphaPct) ==
    [i \in 0..(NumLeds - 1) |->
        << BlendChannel(prev[i][1], leds[i][1], alphaPct),
           BlendChannel(prev[i][2], leds[i][2], alphaPct),
           BlendChannel(prev[i][3], leds[i][3], alphaPct) >>]

\* Smoothing slider values (0..90 %) for which the exact quotient equals the
\* double computation for every pair of channels in 0..255: no smoothing, the
\* Gaming preset, the default, the Film preset and two more.
SmoothPcts == {0, 5, 25, 50, 60, 75}

SmStarts == { BlackFrame, Ramp(0), Uniform(<<255, 255, 255>>) }

SmTargets == { BlackFrame, Ramp(1), Uniform(<<255, 0, 80>>), Uniform(<<1, 1, 1>>) }

InitSmooth ==
    /\ smCur \in SmStarts
    /\ smTarget \in SmTargets
    /\ smAlpha \in SmoothPcts
    /\ smTicks = 0

\* one tick of the render loop with a constant target; the loop goes on ticking,
\* so the tick count runs 0, 1, .., MaxSmTicks and from there again from 1
SmoothTick ==
    /\ smCur' = Blend(smCur, smTarget, smAlpha)
    /\ smTicks' = IF smTicks < MaxSmTicks THEN smTicks + 1 ELSE 1
    /\ UNCHANGED <<smTarget, smAlpha>>

(***************************************************************************)
(* Effect generators: LedEngine._gen_static, _gen_rainbow, _gen_breathing, *)
(* _gen_cycle (lines 285-313).  Elapsed time is tn/7 seconds, the speed    *)
(* slider value es gives speed = es/50, brightness is bri/100.             *)
(***************************************************************************)
\* colorsys.hsv_to_rgb(h, 1.0, 1.0) for h = hnum/hden in [0,1): the three
\* channels as numerators over hden.  i = int(h*6), f = h*6 - i, p = 0,
\* q = 1 - f, t = f, v = 1.
HsvToRgb(hnum, hden) ==
    LET i == (6 * hnum) \div hden
        f == (6 * hnum) % hden
        v == hden
        p == 0
        q == hden - f
        t == f
        k == i % 6
    IN  IF k = 0 THEN <<v, t, p>>
        ELSE IF k = 1 THEN <<q, v, p>>
        ELSE IF k = 2 THEN <<p, v, t>>
        ELSE IF k = 3 THEN <<p, q, v>>
        ELSE IF k = 4 THEN <<t, p, v>>
        ELSE <<v, p, q>>

\* (int(r*255*bri), int(g*255*bri), int(b*255*bri)) for rgb given over hden
Scale255(rgb, hden, bri) ==
    << Trunc(rgb[1] * 255 * bri, hden * 100),
       Trunc(rgb[2] * 255 * bri, hden * 100),
       Trunc(rgb[3] * 255 * bri, hden * 100) >>

\* math.sin(t * speed * 1.5) in millionths, at t = tn/7 and speed = es/50,
\* keyed by k = tn * es (the argument is 3k/700 radians)
SinMicro(k) ==
    CASE k = 25  -> 106938
      [] k = 50  -> 212650
      [] k = 75  -> 315922
      [] k = 100 -> 415572
      [] k = 125 -> 510455
      [] k = 150 -> 599485
      [] k = 200 -> 755975
      [] k = 250 -> 877886
      [] k = 300 -> 959639
      [] k = 400 -> 989723
      [] k = 500 -> 840787
      [] k = 600 -> 539770

gen_static(color, bri) ==
    Uniform(<< Trunc(color[1] * bri, 100),
               Trunc(color[2] * bri, 100),
               Trunc(color[3] * bri, 100) >>)

\* the variant without the per-LED hue offset i / 36.0
gen_rainbow_uniform(tn, es, bri) ==
    LET hden == 31500
    IN  [i \in 0..(NumLeds - 1) |->
            Scale255(HsvToRgb((27 * tn * es) % hden, hden), hden, bri)]

\* hue = (t * speed * 0.3 + i / 36.0) % 1.0
\*     = (3*tn*es/3500 + i/36) % 1 = ((27*tn*es + 875*i) % 31500) / 31500
gen_rainbow(tn, es, bri) ==
    LET hden == 31500
    IN  [i \in 0..(NumLeds - 1) |->
            Scale255(HsvToRgb((27 * tn * es + 875 * i) % hden, hden), hden, bri)]

\* floor(x * bri / (100 * d)) for x, bri >= 0, computed without leaving 32 bits
ScaleDiv(x, bri, d) == ((x \div d) * bri + ((x % d) * bri) \div d) \div 100

\* pulse = (sin(t*speed*1.5) + 1) / 2, v = pulse * bri, int(r*v)
gen_breathing(tn, es, bri, color) ==
    LET s == SinMicro(tn * es) + 1000000
    IN  Uniform(<< ScaleDiv(color[1] * s, bri, 2000000),
                   ScaleDiv(color[2] * s, bri, 2000000),
                   ScaleDiv(color[3] * s, bri, 2000000) >>)

\* hue = (t * speed * 0.1) % 1.0 = ((tn*es) % 3500) / 3500
gen_cycle(tn, es, bri) ==
    LET hden == 3500
    IN  Uniform(Scale255(HsvToRgb((tn * es) % hden, hden), hden, bri))

FxTimes == { tn \in 1..MaxT : tn % 7 # 0 }

FxSpeeds == {25, 50, 100}

FxBris == {0, 50, 80, 100}

FxColors == { <<255, 0, 80>>, <<255, 255, 255>>, <<0, 128, 200>> }

InitFx ==
    /\ fxMode = "none"
    /\ fxT \in FxTimes
    /\ fxSpeed \in FxSpeeds
    /\ fxBri \in FxBris
    /\ fxColor \in FxColors
    /\ fxOut = BlackFrame

FxStatic ==
    /\ fxMode = "none"
    /\ fxMode' = "Statisch"
    /\ fxOut' = gen_static(fxColor, fxBri)
    /\ UNCHANGED <<fxT, fxSpeed, fxBri, fxColor>>

FxRainbow ==
    /\ fxMode = "none"
    /\ fxMode' = "Rainbow"
    /\ fxOut' = gen_rainbow(fxT, fxSpeed, fxBri)
    /\ UNCHANGED <<fxT, fxSpeed, fxBri, fxColor>>

FxBreathing ==
    /\ fxMode = "none"
    /\ fxMode' = "Breathing"
    /\ fxOut' = gen_breathing(fxT, fxSpeed, fxBri, fxColor)
    /\ UNCHANGED <<fxT, fxSpeed, fxBri, fxColor>>

FxCycle ==
    /\ fxMode = "none"
    /\ fxMode' = "Color Cycle"
    /\ fxOut' = gen_cycle(fxT, fxSpeed, fxBri)
    /\ UNCHANGED <<fxT, fxSpeed, fxBri, fxColor>>

(***************************************************************************)
(* Zone sampler: LedEngine._sample_from_frame (lines 315-363).             *)
(*                                                                         *)
(* A frame is a record [h, w, kind, col, seed]; its pixels are given by    *)
(* Pix.  Crop fractions, edge depth and brightness are the slider          *)
(* percentages (crop = pct/100, edge_pct = pct/100, bri = pct/100).  A     *)
(* numpy mean is the exact sum divided by the number of pixels; sums and   *)
(* means of the frames of the model are exact in float32, and for the      *)
(* brightness values of the model int(mean*bri) is the truncated exact     *)
(* product.                                                                *)
(***************************************************************************)
Max2(a, b) == IF a >= b THEN a ELSE b

Min2(a, b) == IF a <= b THEN a ELSE b

\* the pixel frame[y, x] as <<r, g, b>>
Pix(fr, y, x) ==
    IF fr.kind = "uniform"
    THEN fr.col
    ELSE << (17 * y + 5 * x + 3 * fr.seed) % 256,
            (y * x + fr.seed) % 256,
            (255 + 3 * y + x) % 256 >>

\* lines 317-326: the cropped size cw x ch, the stride scale, the sampled region
\* and the edge thickness.  region[i, j] is frame[y0 + i*scale, x0 + j*scale]
RegionOf(fr, crop, edgePct) ==
    LET h  == fr.h
        w  == fr.w
        x0 == Trunc(w * crop[1], 100)
        y0 == Trunc(h * crop[2], 100)
        x1 == Max2(x0 + 1, Trunc(w * (100 - crop[3]), 100))
        y1 == Max2(y0 + 1, Trunc(h * (100 - crop[4]), 100))
        scale == Max2(1, (y1 - y0) \div 360)
        rh == (y1 - y0 + scale - 1) \div scale
        rw == (x1 - x0 + scale - 1) \div scale
    IN  [x0 |-> x0, y0 |-> y0, cw |-> x1 - x0, ch |-> y1 - y0,
         scale |-> scale, rh |-> rh, rw |-> rw,
         edge |-> Max2(2, Trunc(Min2(rw, rh) * edgePct, 100))]

\* a strip of the region: nr rows from row r0, nc columns from column c0
Strip(r0, nr, c0, nc) == [r0 |-> r0, nr |-> nr, c0 |-> c0, nc |-> nc]

\* the sum of channel ch over the pixels k, k+1, .. of the strip img of region g,
\* the pixels counted row by row
RECURSIVE SumPix(_, _, _, _, _)
SumPix(fr, g, img, k, ch) ==
    IF k >= img.nr * img.nc
    THEN 0
    ELSE Pix(fr, g.y0 + (img.r0 + (k \div img.nc)) * g.scale,
                 g.x0 + (img.c0 + (k % img.nc)) * g.scale)[ch]
         + SumPix(fr, g, img, k + 1, ch)

\* the sums divided by the number of rows instead of the number of pixels
MeanColorPerRow(fr, g, img, bri) ==
    << Trunc(SumPix(fr, g, img, 0, 1) * bri, img.nr * 100),
       Trunc(SumPix(fr, g, img, 0, 2) * bri, img.nr * 100),
       Trunc(SumPix(fr, g, img, 0, 3) * bri, img.nr * 100) >>

\* (int(m[0]*bri), int(m[1]*bri), int(m[2]*bri)) for the mean m of the strip
MeanColor(fr, g, img, bri) ==
    LET count == img.nr * img.nc
    IN  << Trunc(SumPix(fr, g, img, 0, 1) * bri, count * 100),
           Trunc(SumPix(fr, g, img, 0, 2) * bri, count * 100),
           Trunc(SumPix(fr, g, img, 0, 3) * bri, count * 100) >>

\* (min(255, ..), min(255, ..), min(255, ..))
Clamped(col) == << Min2(255, col[1]), Min2(255, col[2]), Min2(255, col[3]) >>

\* one mean colour per pixel of the long axis instead of n copies
DegenerateZonesPerPixel(fr, g, img, n, axis, bri) ==
    [k \in 1..(IF axis = 0 THEN img.nr ELSE img.nc) |-> MeanColor(fr, g, img, bri)]

\* chunk < 1 (lines 333-335): [(int(m[0]*bri), ..)] * n
DegenerateZones(fr, g, img, n, axis, bri) ==
    [k \in 1..n |-> MeanColor(fr, g, img, bri)]

\* get_zone_colors(img, n, axis) (lines 330-349) as a sequence of n colours
get_zone_colors(fr, g, img, n, axis, bri) ==
    IF img.nr * img.nc = 0
    THEN [k \in 1..n |-> Black]
    ELSE LET chunk == (IF axis = 0 THEN img.nr ELSE img.nc) \div n
         IN  IF chunk < 1
             THEN DegenerateZones(fr, g, img, n, axis, bri)
             ELSE [k \in 1..n |->
                     Clamped(MeanColor(fr, g,
                         IF axis = 0
                         THEN Strip(img.r0 + (k - 1) * chunk, chunk, img.c0, img.nc)
                         ELSE Strip(img.r0, img.nr, img.c0 + (k - 1) * chunk, chunk),
                         bri))]

\* the list left in the order get_zone_colors returned it
RevSeqNone(xs) == xs

\* xs[::-1] for a sequence
RevSeq(xs) == [k \in 1..Len(xs) |-> xs[Len(xs) + 1 - k]]

\* leds[lo:hi] = xs on a Python list, the list held as a sequence
SliceAssign(leds, lo, hi, xs) ==
    SubSeq(leds, 1, Min2(lo, Len(leds))) \o xs
        \o SubSeq(leds, Min2(Max2(hi, lo), Len(leds)) + 1, Len(leds))

\* _sample_from_frame(frame, bri) with self.crop = crop, self.edge_pct = edgePct,
\* as a function on 0..len-1
sample_from_frame(fr, crop, edgePct, bri) ==
    LET g       == RegionOf(fr, crop, edgePct)
        l_strip == Strip(0, g.rh, 0, Min2(g.edge, g.rw))
        t_strip == Strip(0, Min2(g.edge, g.rh), 0, g.rw)
        r_strip == Strip(0, g.rh, Max2(0, g.rw - g.edge), g.rw - Max2(0, g.rw - g.edge))
        leds0   == [k \in 1..NumLeds |-> Black]
        leds1   == SliceAssign(leds0, 0, 12, RevSeq(get_zone_colors(fr, g, l_strip, N, 0, bri)))
        leds2   == SliceAssign(leds1, 12, 24, get_zone_colors(fr, g, t_strip, N, 1, bri))
        leds3   == SliceAssign(leds2, 24, 36, get_zone_colors(fr, g, r_strip, N, 0, bri))
    IN  [i \in 0..(Len(leds3) - 1) |-> leds3[i + 1]]

\* the value of sfOut before the call
NotSampled == << >>

\* sampler harness: Init draws a frame, a crop, an edge depth and a brightness,
\* SampleFrame applies _sample_from_frame
SampSizes == { <<1, 1>>, <<2, 3>>, <<12, 2>>, <<3, 13>>, <<25, 24>>, <<720, 2>> }

SampFrames ==
    { [h |-> s[1], w |-> s[2], kind |-> "uniform", col |-> c, seed |-> 0] :
          s \in SampSizes, c \in { <<255, 255, 255>>, <<255, 0, 80>> } }
    \cup { [h |-> s[1], w |-> s[2], kind |-> "grad", col |-> Black, seed |-> d] :
          s \in SampSizes, d \in 0..MaxGrad }

\* <<left, top, right, bottom>> in percent, left + right < 100, top + bottom < 100
SampCrops == { <<0, 0, 0, 0>>, <<25, 0, 25, 0>>, <<0, 50, 0, 25>>, <<50, 25, 25, 50>> }

SampEdges == {2, 6, 10, 20}

InitSamp ==
    /\ sfFrame \in SampFrames
    /\ sfCrop \in SampCrops
    /\ sfEdge \in SampEdges
    /\ sfBri \in FxBris
    /\ sfOut = NotSampled

SampleFrame ==
    /\ sfOut = NotSampled
    /\ sfOut' = sample_from_frame(sfFrame, sfCrop, sfEdge, sfBri)
    /\ UNCHANGED <<sfFrame, sfCrop, sfEdge, sfBri>>

(***************************************************************************)
(* Pacing: LedEngine._loop lines 372, 378, 436 and 442-444.  Times are in   *)
(* units of 1/720 s, so that the frame budgets of the model are integers.  *)
(***************************************************************************)
\* ft = 1.0 / max(1, self.target_fps)
FrameTime(fps) == 720 \div Max2(1, fps)

\* the wait computed the wrong way round
PaceWaitSwapped(ft, elapsed) == elapsed - ft

\* wait = ft - elapsed
PaceWait(ft, elapsed) == ft - elapsed

\* target_fps values with a whole number of time units per frame
PaceFpsValues == {15, 60, 90, 144}

\* the value of paceGap before the first tick
NoGap == -1

InitPace ==
    /\ paceFps \in PaceFpsValues
    /\ paceElapsed = 0
    /\ paceOver = 0
    /\ paceSleeps = FALSE
    /\ paceSlept = 0
    /\ paceGap = NoGap

\* one tick: ft is read from target_fps (line 378), the tick's work takes
\* elapsed (line 436), the statistics of lines 437-440 and the loop test take
\* over, and time.sleep(wait) returns after wait or later
PaceTick ==
    \E fps \in PaceFpsValues, e \in 0..MaxElapsed, o \in 0..MaxLate, late \in 0..MaxLate :
        LET ft   == FrameTime(fps)
            wait == PaceWait(ft, e)
        IN  /\ paceFps' = fps
            /\ paceElapsed' = e
            /\ paceOver' = o
            /\ paceSleeps' = (wait > 0)
            /\ paceSlept' = IF wait > 0 THEN wait + late ELSE 0
            /\ paceGap' = e + o + (IF wait > 0 THEN wait + late ELSE 0)

(***************************************************************************)
(* Crop configuration: calc_region (lines 208-223) and the handlers of     *)
(* AmbilightGUI that write LedEngine.crop: _on_aspect_change (781-805),    *)
(* _on_canvas_click / _on_canvas_drag (807-836), _update_loop (864-866)    *)
(* and the four crop sliders (682-685).  A crop fraction is held exactly   *)
(* as <<numerator, denominator>>; an aspect ratio aw:ah as a pair of       *)
(* integers (2.35:1 as 235:100).                                           *)
(***************************************************************************)
ASPECT_RATIOS ==
    [ n \in {"Vollbild (Monitor)", "16:9", "16:10", "21:9", "32:9", "4:3",
             "2.35:1 (Kino)", "2.39:1 (Kino)", "1:1", "Manuell"} |->
        CASE n = "Vollbild (Monitor)" -> << >>
          [] n = "16:9"  -> <<16, 9>>
          [] n = "16:10" -> <<16, 10>>
          [] n = "21:9"  -> <<21, 9>>
          [] n = "32:9"  -> <<32, 9>>
          [] n = "4:3"   -> <<4, 3>>
          [] n = "2.35:1 (Kino)" -> <<235, 100>>
          [] n = "2.39:1 (Kino)" -> <<239, 100>>
          [] n = "1:1"   -> <<1, 1>>
          [] n = "Manuell" -> <<"custom">> ]

Abs(x) == IF x >= 0 THEN x ELSE -x

\* (0.0, 0.0, 0.0, 0.0)
NoCrop == << <<0, 1>>, <<0, 1>>, <<0, 1>>, <<0, 1>> >>

\* calc_region(mon_w, mon_h, aspect); aspect << >> is None.
\*   abs(aw/ah - mon_w/mon_h) < 0.01  iff  100 * |aw*mon_h - mon_w*ah| < ah*mon_h
\*   (mon_w - mon_h*aw/ah) / 2 / mon_w = (mon_w*ah - mon_h*aw) / (2*mon_w*ah)
\*   (mon_h - mon_w*ah/aw) / 2 / mon_h = (mon_h*aw - mon_w*ah) / (2*mon_h*aw)
calc_region(mon_w, mon_h, aspect) ==
    IF aspect = << >>
    THEN NoCrop
    ELSE LET aw == aspect[1]
             ah == aspect[2]
         IN  IF 100 * Abs(aw * mon_h - mon_w * ah) < ah * mon_h
             THEN NoCrop
             ELSE IF aw * mon_h < mon_w * ah
                  THEN LET pct == << mon_w * ah - mon_h * aw, 2 * mon_w * ah >>
                       IN  << pct, <<0, 1>>, pct, <<0, 1>> >>
                  ELSE LET pct == << mon_h * aw - mon_w * ah, 2 * mon_h * aw >>
                       IN  << <<0, 1>>, pct, <<0, 1>>, pct >>

\* (crop_l_var/100.0, crop_t_var/100.0, crop_r_var/100.0, crop_b_var/100.0)
ManualCrop(sl) == << <<sl[1], 100>>, <<sl[2], 100>>, <<sl[3], 100>>, <<sl[4], 100>> >>

\* the crop _on_aspect_change computes (lines 782-793)
CropFor(name, sl, mon) ==
    IF name = "Manuell"
    THEN ManualCrop(sl)
    ELSE calc_region(mon[1], mon[2], ASPECT_RATIOS[name])

\* the upper end of the four crop sliders and of the clamp of the canvas drag
SliderMax == 50

\* max(0, min(50, v))
ClampSlider(v) == Max2(0, Min2(SliderMax, v))

\* screen sizes, slider positions and drag distances (in percent) of the model
MonSizes == { <<1920, 1080>>, <<1080, 1920>> }

SliderValues == {0, SliderMax}

DragDeltas == {-50, 0, 50}

NoDrag == << >>

\* the state after AmbilightGUI.__init__ with the default configuration
InitCrop ==
    /\ cfMon \in MonSizes
    /\ cfAspect = "Vollbild (Monitor)"
    /\ cfSliders = <<0, 0, 0, 0>>
    /\ cfDrag = NoDrag
    /\ cfCrop = NoCrop

\* a format is chosen in the combobox: _on_aspect_change
OnAspectChange ==
    \E name \in DOMAIN ASPECT_RATIOS :
        /\ cfAspect' = name
        /\ cfCrop' = CropFor(name, cfSliders, cfMon)
        /\ UNCHANGED <<cfMon, cfSliders, cfDrag>>

\* one of the crop sliders, shown in manual mode, is moved
MoveSlider ==
    /\ cfAspect = "Manuell"
    /\ \E k \in 1..4, v \in SliderValues :
        cfSliders' = [cfSliders EXCEPT ![k] = v]
    /\ UNCHANGED <<cfMon, cfAspect, cfDrag, cfCrop>>

\* _update_loop, lines 864-866
UpdateLoop ==
    /\ cfCrop' = IF cfAspect = "Manuell" THEN ManualCrop(cfSliders) ELSE cfCrop
    /\ UNCHANGED <<cfMon, cfAspect, cfSliders, cfDrag>>

\* _on_canvas_click
OnCanvasClick ==
    /\ cfAspect = "Manuell"
    /\ cfDrag' = cfSliders
    /\ UNCHANGED <<cfMon, cfAspect, cfSliders, cfCrop>>

\* _on_canvas_drag with the pointer dx, dy percent away from the click
OnCanvasDrag ==
    /\ cfAspect = "Manuell"
    /\ cfDrag # NoDrag
    /\ \E dx \in DragDeltas, dy \in DragDeltas :
        LET nl == ClampSlider(cfDrag[1] + dx)
            nr == ClampSlider(cfDrag[3] - dx)
            nt == ClampSlider(cfDrag[2] + dy)
            nb == ClampSlider(cfDrag[4] - dy)
        IN  /\ cfSliders' = <<nl, nt, nr, nb>>
            /\ cfCrop' = CropFor(cfAspect, <<nl, nt, nr, nb>>, cfMon)
    /\ UNCHANGED <<cfMon, cfAspect, cfDrag>>

(***************************************************************************)
(* Specifications of the harnesses.  Each draws its own inputs and         *)
(* holds the other harnesses' variables at fixed values.                   *)
(***************************************************************************)
IdleEnc ==
    /\ encLeds = BlackFrame
    /\ encOrig = BlackFrame
    /\ encCnt = 0
    /\ encMirror = FALSE
    /\ encReports = << >>
    /\ encFlips = 0
    /\ encDx = NoDx

IdleSm ==
    /\ smCur = BlackFrame
    /\ smTarget = BlackFrame
    /\ smAlpha = 0
    /\ smTicks = 0

IdleSamp ==
    /\ sfFrame = [h |-> 1, w |-> 1, kind |-> "uniform", col |-> Black, seed |-> 0]
    /\ sfCrop = <<0, 0, 0, 0>>
    /\ sfEdge = 6
    /\ sfBri = 80
    /\ sfOut = NotSampled

IdlePace ==
    /\ paceFps = 90
    /\ paceElapsed = 0
    /\ paceOver = 0
    /\ paceSleeps = FALSE
    /\ paceSlept = 0
    /\ paceGap = NoGap

IdleCrop ==
    /\ cfMon = <<1920, 1080>>
    /\ cfAspect = "Vollbild (Monitor)"
    /\ cfSliders = <<0, 0, 0, 0>>
    /\ cfDrag = NoDrag
    /\ cfCrop = NoCrop

IdleFx ==
    /\ fxMode = "none"
    /\ fxT = 1
    /\ fxSpeed = 50
    /\ fxBri = 80
    /\ fxColor = <<255, 0, 80>>
    /\ fxOut = BlackFrame

(***************************************************************************)
(* LedEngine: start / stop / disconnect on the controlling thread, the     *)
(* render loop _loop on worker threads, and the HID transport.             *)
(*                                                                         *)
(* Threads: 0 is the controlling (GUI) thread, 1..MaxWorkers are the      *)
(* threading.Thread objects running _loop.  Every read and every write of  *)
(* a field that another thread writes or reads is a step of its own, and   *)
(* so is every call on the output report object, which the threads share:  *)
(* the other threads run between any two of these steps.                   *)
(***************************************************************************)
Main == 0
Workers == 1..MaxWorkers
Threads == {Main} \cup Workers

NoFrame == << >>
NoBuf == << >>
NoSnap == << >>
NoColor == << >>
NoReport == << >>

\* the capture modes of line 380; the model's capture mode is "Ambilight"
IsCaptureMode(m) == m = "Ambilight"

\* the values the widgets are moved between: the constructor's values, and the
\* static mode at full brightness without smoothing
ModeValues == {"Ambilight", "Statisch"}
BriValues == {80, 100}
SmoothValues == {25, 0}

\* the colour of the screen of the model, every pixel the same
CaptureColors == { <<200, 100, 50>> }

\* _sample_from_frame(frame, bri) for a frame whose pixels all have colour col
SampledFrame(col, bri) ==
    Uniform(<< Trunc(col[1] * bri, 100),
               Trunc(col[2] * bri, 100),
               Trunc(col[3] * bri, 100) >>)

InitEngine ==
    /\ running = FALSE
    /\ calls = << >>
    /\ thread = 0
    /\ device = FALSE
    /\ out = FALSE
    /\ cnt = 0
    /\ connected = FALSE
    /\ mode = "Ambilight"
    /\ static_color = <<255, 0, 80>>
    /\ brightness = 80
    /\ smooth = 25
    /\ mirror = FALSE
    /\ mode_var = "Ambilight"
    /\ smooth_var = 25
    /\ bri_var = 80
    /\ mirror_var = FALSE
    /\ present \in BOOLEAN
    /\ handleOpen = FALSE
    /\ handleDead = FALSE
    /\ raw = NoReport
    /\ pc = [t \in Threads |-> IF t = Main THEN "idle" ELSE "new"]
    /\ op = "none"
    /\ cur = [w \in Workers |-> BlackFrame]
    /\ snap = [w \in Workers |-> NoSnap]
    /\ gsRgb = [w \in Workers |-> NoColor]
    /\ nxt = [w \in Workers |-> 0]
    /\ buf = [t \in Threads |-> NoBuf]
    /\ ri = [t \in Threads |-> 0]
    /\ tout = [t \in Threads |-> FALSE]
    /\ handed = [t \in Threads |-> << >>]
    /\ sent = [t \in Threads |-> << >>]
    /\ sentCnts = << >>
    /\ sessionFailed = FALSE
    /\ acq = [w \in Workers |-> "none"]
    /\ tgt = [w \in Workers |-> NoFrame]
    /\ prevCur = [w \in Workers |-> NoFrame]
    /\ lastGood = [w \in Workers |-> NoFrame]

cfgVars   == <<mode, static_color, brightness, smooth, mirror>>
tkVars    == <<mode_var, smooth_var, bri_var, mirror_var>>
sessVars  == <<device, out, connected>>
devVars   == <<present, handleOpen, handleDead>>
locVars   == <<cur, snap, gsRgb, nxt>>
tickGhost == <<acq, tgt, prevCur, lastGood>>
sendVars  == <<buf, ri, tout, handed, sent>>
\* what no handler of the configuration side touches
engineRest == <<calls, running, thread, cnt, sessVars, devVars, op, raw, locVars,
                sendVars, sentCnts, sessionFailed, tickGhost>>

(***************************************************************************)
(* The configuration side (AmbilightGUI) runs on the controlling thread.   *)
(* Each widget changes its own Tk variable in an event of its own;         *)
(* _update_loop (lines 855-862), called every 50 ms, copies the Tk         *)
(* variables into the engine's fields one assignment at a time, in the     *)
(* order brightness, smooth, mirror, mode, and the worker threads run      *)
(* between the assignments.  The mode box's handler and the colour button  *)
(* write their field of the engine at once.                                *)
(***************************************************************************)
\* where the controlling thread is inside _update_loop: before the assignment
\* of smooth (line 857), of mirror (line 860), of mode (line 861)
UpdPcs == {"upd_smooth", "upd_mirror", "upd_mode"}

\* the colours the colour dialog returns
PickColors == { <<255, 0, 80>>, <<10, 20, 30>> }

\* the mode box (lines 646-647) is put to another mode
ModeBox ==
    /\ pc[Main] = "idle"
    /\ \E m \in ModeValues \ {mode_var} : mode_var' = m
    /\ UNCHANGED <<smooth_var, bri_var, mirror_var, cfgVars, pc, engineRest>>
    /\ UNCHANGED harnessVars

\* the brightness slider (line 709) is moved
BriSlider ==
    /\ pc[Main] = "idle"
    /\ \E v \in BriValues \ {bri_var} : bri_var' = v
    /\ UNCHANGED <<mode_var, smooth_var, mirror_var, cfgVars, pc, engineRest>>
    /\ UNCHANGED harnessVars

\* the smoothing slider (line 711) is moved
SmoothSlider ==
    /\ pc[Main] = "idle"
    /\ \E v \in SmoothValues \ {smooth_var} : smooth_var' = v
    /\ UNCHANGED <<mode_var, bri_var, mirror_var, cfgVars, pc, engineRest>>
    /\ UNCHANGED harnessVars

\* the mirror check box (lines 703-704) is clicked
MirrorCheck ==
    /\ pc[Main] = "idle"
    /\ mirror_var' = ~mirror_var
    /\ UNCHANGED <<mode_var, smooth_var, bri_var, cfgVars, pc, engineRest>>
    /\ UNCHANGED harnessVars

\* _on_mode_change, lines 749-750: self.engine.mode = self.mode_var.get()
\* (the modes of the model have no preset)
OnModeChange ==
    /\ pc[Main] = "idle"
    /\ mode' = mode_var
    /\ UNCHANGED <<static_color, brightness, smooth, mirror, tkVars, pc, engineRest>>
    /\ UNCHANGED harnessVars

\* _pick_color, lines 773-776: self.engine.static_color = rgb
PickColor ==
    /\ pc[Main] = "idle"
    /\ \E c \in PickColors : static_color' = c
    /\ UNCHANGED <<mode, brightness, smooth, mirror, tkVars, pc, engineRest>>
    /\ UNCHANGED harnessVars

\* line 856: self.engine.brightness = self.bri_var.get() / 100.0
UpdateLoopBrightness ==
    /\ pc[Main] = "idle"
    /\ brightness' = bri_var
    /\ pc' = [pc EXCEPT ![Main] = "upd_smooth"]
    /\ UNCHANGED <<mode, static_color, smooth, mirror, tkVars, engineRest>>
    /\ UNCHANGED harnessVars

\* line 857: self.engine.smooth = self.smooth_var.get() / 100.0
UpdateLoopSmooth ==
    /\ pc[Main] = "upd_smooth"
    /\ smooth' = smooth_var
    /\ pc' = [pc EXCEPT ![Main] = "upd_mirror"]
    /\ UNCHANGED <<mode, static_color, brightness, mirror, tkVars, engineRest>>
    /\ UNCHANGED harnessVars

\* line 860: self.engine.mirror = self.mirror_var.get()
UpdateLoopMirror ==
    /\ pc[Main] = "upd_mirror"
    /\ mirror' = mirror_var
    /\ pc' = [pc EXCEPT ![Main] = "upd_mode"]
    /\ UNCHANGED <<mode, static_color, brightness, smooth, tkVars, engineRest>>
    /\ UNCHANGED harnessVars

\* line 861: self.engine.mode = self.mode_var.get(); the rest of _update_loop
\* writes no field the render loop of the model reads
UpdateLoopMode ==
    /\ pc[Main] = "upd_mode"
    /\ mode' = mode_var
    /\ pc' = [pc EXCEPT ![Main] = "idle"]
    /\ UNCHANGED <<static_color, brightness, smooth, mirror, tkVars, engineRest>>
    /\ UNCHANGED harnessVars

(***************************************************************************)
(* The device is unplugged or plugged in again.  An open handle of an      *)
(* unplugged device is dead: every later send on it raises, and it stays   *)
(* open until close() is called on it.                                     *)
(***************************************************************************)
Unplug ==
    /\ present
    /\ present' = FALSE
    /\ handleDead' = handleOpen
    /\ UNCHANGED handleOpen
    /\ UNCHANGED <<calls, cfgVars, tkVars, running, thread, cnt, sessVars, pc, op, raw,
                   locVars, sendVars, sentCnts, sessionFailed, tickGhost>>
    /\ UNCHANGED harnessVars

Replug ==
    /\ ~present
    /\ present' = TRUE
    /\ UNCHANGED <<calls, cfgVars, tkVars, running, thread, cnt, sessVars, handleOpen,
                   handleDead, pc, op, raw, locVars, sendVars, sentCnts, sessionFailed,
                   tickGhost>>
    /\ UNCHANGED harnessVars

(***************************************************************************)
(* LedEngine.start (lines 271-276) with LedEngine.connect (lines 254-261). *)
(* The fields start and connect write (device, out, connected, thread) are *)
(* written by the controlling thread only, and a worker reads one of them, *)
(* out, in a step of its own: a call is one step here.                     *)
(***************************************************************************)
\* the thread objects not yet created
FreeSlots == { w \in Workers : pc[w] = "new" }

\* a start() that goes on to create a thread although the engine is running
StartWhileRunningAgain ==
    /\ pc[Main] = "idle"
    /\ Len(calls) < MaxCalls
    /\ calls' = Append(calls, "start")
    /\ running
    /\ FreeSlots # {}
    /\ LET w == CHOOSE x \in FreeSlots : \A y \in FreeSlots : x <= y
       IN  /\ thread' = w
           /\ pc' = [pc EXCEPT ![w] = "check"]
    /\ UNCHANGED <<cfgVars, tkVars, running, cnt, sessVars, devVars, op, raw, locVars,
                   sendVars, sentCnts, sessionFailed, tickGhost>>
    /\ UNCHANGED harnessVars

\* if self.running: return
StartWhileRunning ==
    /\ pc[Main] = "idle"
    /\ Len(calls) < MaxCalls
    /\ calls' = Append(calls, "start")
    /\ running
    /\ UNCHANGED <<cfgVars, tkVars, running, thread, cnt, sessVars, devVars, pc, op, raw,
                   locVars, sendVars, sentCnts, sessionFailed, tickGhost>>
    /\ UNCHANGED harnessVars

\* start() going on to start the loop although connect() found no device
StartNoDeviceRuns ==
    /\ pc[Main] = "idle"
    /\ Len(calls) < MaxCalls
    /\ calls' = Append(calls, "start")
    /\ ~running
    /\ ~connected
    /\ ~present
    /\ running' = TRUE
    /\ UNCHANGED <<cfgVars, tkVars, thread, cnt, sessVars, devVars, pc, op, raw,
                   locVars, sendVars, sentCnts, sessionFailed, tickGhost>>
    /\ UNCHANGED harnessVars

\* if not self.connected and not self.connect(): return   (find_device() is None)
StartNoDevice ==
    /\ pc[Main] = "idle"
    /\ Len(calls) < MaxCalls
    /\ calls' = Append(calls, "start")
    /\ ~running
    /\ ~connected
    /\ ~present
    /\ UNCHANGED <<cfgVars, tkVars, running, thread, cnt, sessVars, devVars, pc, op, raw,
                   locVars, sendVars, sentCnts, sessionFailed, tickGhost>>
    /\ UNCHANGED harnessVars

\* connect() when needed (a new handle with a new output report object), then
\* running = True and a new thread runs _loop; the thread's first statements
\* (lines 366-369) set cur to all black
StartRun ==
    /\ pc[Main] = "idle"
    /\ Len(calls) < MaxCalls
    /\ calls' = Append(calls, "start")
    /\ ~running
    /\ connected \/ present
    /\ FreeSlots # {}
    /\ LET w == CHOOSE x \in FreeSlots : \A y \in FreeSlots : x <= y
       IN  /\ thread' = w
           /\ pc' = [pc EXCEPT ![w] = "check"]
           /\ cur' = [cur EXCEPT ![w] = BlackFrame]
           /\ snap' = [snap EXCEPT ![w] = NoSnap]
           /\ acq' = [acq EXCEPT ![w] = "none"]
           /\ tgt' = [tgt EXCEPT ![w] = NoFrame]
           /\ prevCur' = [prevCur EXCEPT ![w] = NoFrame]
           /\ lastGood' = [lastGood EXCEPT ![w] = NoFrame]
    /\ IF connected
       THEN UNCHANGED <<device, out, connected, handleOpen, handleDead, raw,
                        sessionFailed>>
       ELSE /\ device' = TRUE
            /\ out' = TRUE
            /\ connected' = TRUE
            /\ handleOpen' = TRUE
            /\ handleDead' = FALSE
            /\ raw' = NoReport
            /\ sessionFailed' = FALSE
    /\ running' = TRUE
    /\ UNCHANGED <<cfgVars, tkVars, cnt, present, op, gsRgb, nxt, sendVars, sentCnts>>
    /\ UNCHANGED harnessVars

start == StartWhileRunning \/ StartNoDevice \/ StartRun

(***************************************************************************)
(* build_and_send as called by a thread t: the buffer is built from the    *)
(* arguments (lines 182-202), then for i in 0..2 the report is stored in   *)
(* the output report object (line 204) and the object is sent (line 205).  *)
(* The object is self.out, one for all threads: send() transmits what was  *)
(* stored in it last, by whichever thread.                                 *)
(***************************************************************************)
\* stop and disconnect evaluate the arguments self.out and self.cnt and build
\* the buffer; out is written by the controlling thread only, so the one field
\* read here that another thread writes is cnt
BeginSend(t, leds, mirrorArg) ==
    /\ buf' = [buf EXCEPT ![t] = BuildBuf(leds, cnt, mirrorArg)]
    /\ ri' = [ri EXCEPT ![t] = 0]
    /\ tout' = [tout EXCEPT ![t] = out]
    /\ handed' = [handed EXCEPT ![t] = << >>]
    /\ sent' = [sent EXCEPT ![t] = << >>]

\* out.set_raw_data raises when out is None (AttributeError) or the handle was
\* closed; it does no transfer, so it does not notice an unplugged device
SetRaises(t) == ~tout[t] \/ ~handleOpen

\* out.send raises when the handle was closed or its device is gone
SendRaises(t) == ~tout[t] \/ ~handleOpen \/ handleDead

\* what the except clause around the call does
\*   _loop (432-433): running = False; break, then the cleanup and the thread ends
\*   stop (283): pass
\*   disconnect (268-269): pass, then device = None; out = None; connected = False
Raised(t) ==
    /\ buf' = [buf EXCEPT ![t] = NoBuf]
    /\ handed' = [handed EXCEPT ![t] = << >>]
    /\ sent' = [sent EXCEPT ![t] = << >>]
    /\ ri' = [ri EXCEPT ![t] = 0]
    /\ tout' = [tout EXCEPT ![t] = FALSE]
    /\ IF t = Main
       THEN /\ pc' = [pc EXCEPT ![Main] = "idle"]
            /\ op' = "none"
            /\ IF op = "disconnect"
               THEN /\ device' = FALSE
                    /\ out' = FALSE
                    /\ connected' = FALSE
               ELSE UNCHANGED <<device, out, connected>>
            /\ UNCHANGED <<running, sessionFailed, tickGhost, cur>>
       ELSE /\ pc' = [pc EXCEPT ![t] = "done"]
            /\ running' = FALSE
            /\ sessionFailed' = TRUE
            /\ cur' = [cur EXCEPT ![t] = BlackFrame]
            /\ acq' = [acq EXCEPT ![t] = "none"]
            /\ tgt' = [tgt EXCEPT ![t] = NoFrame]
            /\ prevCur' = [prevCur EXCEPT ![t] = NoFrame]
            /\ lastGood' = [lastGood EXCEPT ![t] = NoFrame]
            /\ UNCHANGED <<op, device, out, connected>>

\* the counter bytes of the last two logical frames whose three reports were sent
Remember(cs, c) == IF Len(cs) < 2 THEN Append(cs, c) ELSE << cs[2], c >>

\* line 204: out.set_raw_data([0x00] + list(buf[i*64:(i+1)*64]))
SetRawData(t) ==
    /\ pc[t] = "set"
    /\ IF SetRaises(t)
       THEN /\ Raised(t)
            /\ UNCHANGED raw
       ELSE /\ raw' = Report(buf[t], ri[t])
            /\ handed' = [handed EXCEPT ![t] = Append(@, Report(buf[t], ri[t]))]
            /\ pc' = [pc EXCEPT ![t] = "xmit"]
            /\ UNCHANGED <<buf, ri, tout, sent, op, sessVars, running, sessionFailed,
                           tickGhost, cur>>
    /\ UNCHANGED <<calls, cfgVars, tkVars, thread, cnt, devVars, snap, gsRgb, nxt, sentCnts>>
    /\ UNCHANGED harnessVars

\* line 205: out.send(), which transmits the data stored in the report object;
\* after the third pass build_and_send returns
SendReport(t) ==
    /\ pc[t] = "xmit"
    /\ IF SendRaises(t)
       THEN /\ Raised(t)
            /\ UNCHANGED sentCnts
       ELSE /\ sent' = [sent EXCEPT ![t] = Append(@, raw)]
            /\ IF ri[t] < 2
               THEN /\ ri' = [ri EXCEPT ![t] = @ + 1]
                    /\ pc' = [pc EXCEPT ![t] = "set"]
                    /\ UNCHANGED <<sentCnts, op>>
               ELSE /\ sentCnts' = Remember(sentCnts, buf[t][4])
                    /\ pc' = [pc EXCEPT ![t] =
                                IF t # Main THEN "post"
                                ELSE IF op = "disconnect" THEN "close" ELSE "return"]
                    /\ UNCHANGED <<ri, op>>
            /\ UNCHANGED <<buf, tout, handed, sessVars, running, sessionFailed,
                           tickGhost, cur>>
    /\ UNCHANGED <<calls, cfgVars, tkVars, thread, cnt, devVars, raw, snap, gsRgb, nxt>>
    /\ UNCHANGED harnessVars

(***************************************************************************)
(* LedEngine.stop (lines 278-283).                                         *)
(***************************************************************************)
\* the tail of stop: if self.connected: build_and_send(self.out, black, self.cnt)
StopTail ==
    IF connected
    THEN /\ BeginSend(Main, BlackFrame, FALSE)
         /\ pc' = [pc EXCEPT ![Main] = "set"]
         /\ op' = "stop"
    ELSE /\ pc' = [pc EXCEPT ![Main] = "idle"]
         /\ op' = "none"
         /\ UNCHANGED sendVars

\* self.running = False, with no thread to join
StopNoThread ==
    /\ pc[Main] = "idle"
    /\ Len(calls) < MaxCalls
    /\ calls' = Append(calls, "stop")
    /\ thread = 0
    /\ running' = FALSE
    /\ StopTail
    /\ UNCHANGED <<cfgVars, tkVars, thread, cnt, sessVars, devVars, raw, locVars,
                   sentCnts, sessionFailed, tickGhost>>
    /\ UNCHANGED harnessVars

\* self.running = False, then the thread is joined
StopBegin ==
    /\ pc[Main] = "idle"
    /\ Len(calls) < MaxCalls
    /\ calls' = Append(calls, "stop")
    /\ thread # 0
    /\ running' = FALSE
    /\ pc' = [pc EXCEPT ![Main] = "join"]
    /\ op' = "stop"
    /\ UNCHANGED <<cfgVars, tkVars, thread, cnt, sessVars, devVars, raw, locVars,
                   sendVars, sentCnts, sessionFailed, tickGhost>>
    /\ UNCHANGED harnessVars

\* join(timeout=2) returns because the thread has ended
StopJoined ==
    /\ pc[Main] = "join"
    /\ pc[thread] = "done"
    /\ thread' = 0
    /\ StopTail
    /\ UNCHANGED <<calls, cfgVars, tkVars, running, cnt, sessVars, devVars, raw, locVars,
                   sentCnts, sessionFailed, tickGhost>>
    /\ UNCHANGED harnessVars

\* join(timeout=2) returns after two seconds with the thread still alive
StopJoinTimeout ==
    /\ pc[Main] = "join"
    /\ pc[thread] # "done"
    /\ thread' = 0
    /\ StopTail
    /\ UNCHANGED <<calls, cfgVars, tkVars, running, cnt, sessVars, devVars, raw, locVars,
                   sentCnts, sessionFailed, tickGhost>>
    /\ UNCHANGED harnessVars

\* build_and_send returned and stop returns; its locals are gone
StopReturn ==
    /\ pc[Main] = "return"
    /\ pc' = [pc EXCEPT ![Main] = "idle"]
    /\ op' = "none"
    /\ buf' = [buf EXCEPT ![Main] = NoBuf]
    /\ handed' = [handed EXCEPT ![Main] = << >>]
    /\ sent' = [sent EXCEPT ![Main] = << >>]
    /\ ri' = [ri EXCEPT ![Main] = 0]
    /\ tout' = [tout EXCEPT ![Main] = FALSE]
    /\ UNCHANGED <<calls, cfgVars, tkVars, running, thread, cnt, sessVars, devVars, raw,
                   locVars, sentCnts, sessionFailed, tickGhost>>
    /\ UNCHANGED harnessVars

stop == StopNoThread \/ StopBegin \/ StopJoined \/ StopJoinTimeout \/ StopReturn

(***************************************************************************)
(* LedEngine.disconnect (lines 263-269).                                   *)
(***************************************************************************)
\* if self.device: build_and_send(self.out, black, self.cnt) ...
DisconnectBegin ==
    /\ pc[Main] = "idle"
    /\ Len(calls) < MaxCalls
    /\ calls' = Append(calls, "disconnect")
    /\ device
    /\ BeginSend(Main, BlackFrame, FALSE)
    /\ pc' = [pc EXCEPT ![Main] = "set"]
    /\ op' = "disconnect"
    /\ UNCHANGED <<cfgVars, tkVars, running, thread, cnt, sessVars, devVars, raw,
                   locVars, sentCnts, sessionFailed, tickGhost>>
    /\ UNCHANGED harnessVars

\* self.device.close(), then device = None; out = None; connected = False
DisconnectClose ==
    /\ pc[Main] = "close"
    /\ handleOpen' = FALSE
    /\ handleDead' = FALSE
    /\ device' = FALSE
    /\ out' = FALSE
    /\ connected' = FALSE
    /\ pc' = [pc EXCEPT ![Main] = "idle"]
    /\ op' = "none"
    /\ buf' = [buf EXCEPT ![Main] = NoBuf]
    /\ handed' = [handed EXCEPT ![Main] = << >>]
    /\ sent' = [sent EXCEPT ![Main] = << >>]
    /\ ri' = [ri EXCEPT ![Main] = 0]
    /\ tout' = [tout EXCEPT ![Main] = FALSE]
    /\ UNCHANGED <<calls, cfgVars, tkVars, running, thread, cnt, present, raw, locVars,
                   sentCnts, sessionFailed, tickGhost>>
    /\ UNCHANGED harnessVars

\* if self.device: is false
DisconnectNoDevice ==
    /\ pc[Main] = "idle"
    /\ ~device
    /\ UNCHANGED vars

disconnect == DisconnectBegin \/ DisconnectClose \/ DisconnectNoDevice

(***************************************************************************)
(* LedEngine._loop (lines 365-449) on worker thread w.                     *)
(***************************************************************************)
\* what a step of the loop that stays inside the loop's own locals leaves alone
loopRest == <<calls, cfgVars, tkVars, running, thread, cnt, sessVars, devVars, op, raw,
              sentCnts, sessionFailed>>

\* line 371, while self.running: false, the cleanup runs and the thread ends
LoopExit(w) ==
    /\ pc[w] = "check"
    /\ ~running
    /\ pc' = [pc EXCEPT ![w] = "done"]
    /\ cur' = [cur EXCEPT ![w] = BlackFrame]
    /\ tout' = [tout EXCEPT ![w] = FALSE]
    /\ lastGood' = [lastGood EXCEPT ![w] = NoFrame]
    /\ UNCHANGED <<loopRest, snap, gsRgb, nxt, buf, ri, handed, sent, acq, tgt, prevCur>>
    /\ UNCHANGED harnessVars

\* a loop that starts its next tick without testing self.running
LoopTestNoTest(w) ==
    /\ pc[w] = "check"
    /\ cnt < MaxCnt
    /\ pc' = [pc EXCEPT ![w] = "rd_mode"]
    /\ UNCHANGED <<loopRest, locVars, sendVars, tickGhost>>
    /\ UNCHANGED harnessVars

\* line 371, while self.running: true
LoopTest(w) ==
    /\ pc[w] = "check"
    /\ running
    /\ cnt < MaxCnt
    /\ pc' = [pc EXCEPT ![w] = "rd_mode"]
    /\ UNCHANGED <<loopRest, locVars, sendVars, tickGhost>>
    /\ UNCHANGED harnessVars

\* line 374: mode = self.mode
LoopReadMode(w) ==
    /\ pc[w] = "rd_mode"
    /\ snap' = [snap EXCEPT ![w] = [mode |-> mode]]
    /\ pc' = [pc EXCEPT ![w] = "rd_bri"]
    /\ UNCHANGED <<loopRest, cur, gsRgb, nxt, sendVars, tickGhost>>
    /\ UNCHANGED harnessVars

\* line 375: bri = self.brightness
LoopReadBrightness(w) ==
    /\ pc[w] = "rd_bri"
    /\ snap' = [snap EXCEPT ![w] = [mode |-> snap[w].mode, bri |-> brightness]]
    /\ pc' = [pc EXCEPT ![w] = "rd_alpha"]
    /\ UNCHANGED <<loopRest, cur, gsRgb, nxt, sendVars, tickGhost>>
    /\ UNCHANGED harnessVars

\* line 376: alpha = self.smooth
LoopReadSmooth(w) ==
    /\ pc[w] = "rd_alpha"
    /\ snap' = [snap EXCEPT ![w] =
                  [mode |-> snap[w].mode, bri |-> snap[w].bri, alpha |-> smooth]]
    /\ pc' = [pc EXCEPT ![w] = "rd_mirror"]
    /\ UNCHANGED <<loopRest, cur, gsRgb, nxt, sendVars, tickGhost>>
    /\ UNCHANGED harnessVars

\* line 377: mirror = self.mirror
LoopReadMirror(w) ==
    /\ pc[w] = "rd_mirror"
    /\ snap' = [snap EXCEPT ![w] =
                  [mode |-> snap[w].mode, bri |-> snap[w].bri,
                   alpha |-> snap[w].alpha, mirror |-> mirror]]
    /\ pc' = [pc EXCEPT ![w] = "tick"]
    /\ UNCHANGED <<loopRest, cur, gsRgb, nxt, sendVars, tickGhost>>
    /\ UNCHANGED harnessVars

\* line 413, the frame used when no screen frame was acquired: leds = cur
HoldFrameGood(curFrame, good) == IF good = NoFrame THEN curFrame ELSE good

HoldFrame(curFrame, good) == curFrame

\* lines 425-427: leds is blended into the local cur
BlendInto(w, leds) ==
    /\ prevCur' = [prevCur EXCEPT ![w] = cur[w]]
    /\ tgt' = [tgt EXCEPT ![w] = leds]
    /\ cur' = [cur EXCEPT ![w] = Blend(cur[w], leds, snap[w].alpha)]
    /\ pc' = [pc EXCEPT ![w] = "rd_out"]

\* capture mode, a screen frame was grabbed and sampled with the tick's bri
\* (lines 380-399), then blended
TickCaptured(w) ==
    /\ pc[w] = "tick"
    /\ IsCaptureMode(snap[w].mode)
    /\ \E col \in CaptureColors :
        /\ BlendInto(w, SampledFrame(col, snap[w].bri))
        /\ lastGood' = [lastGood EXCEPT ![w] = SampledFrame(col, snap[w].bri)]
    /\ acq' = [acq EXCEPT ![w] = "ok"]
    /\ UNCHANGED <<loopRest, snap, gsRgb, nxt, sendVars>>
    /\ UNCHANGED harnessVars

\* capture mode, the grab failed: frame is None (lines 395-396, 412-413)
TickCaptureFailed(w) ==
    /\ pc[w] = "tick"
    /\ IsCaptureMode(snap[w].mode)
    /\ BlendInto(w, HoldFrame(cur[w], lastGood[w]))
    /\ acq' = [acq EXCEPT ![w] = "fail"]
    /\ UNCHANGED <<loopRest, snap, gsRgb, nxt, sendVars, lastGood>>
    /\ UNCHANGED harnessVars

\* mode "Statisch" (lines 414-415), _gen_static line 286: r, g, b = self.static_color
StaticReadColor(w) ==
    /\ pc[w] = "tick"
    /\ snap[w].mode = "Statisch"
    /\ gsRgb' = [gsRgb EXCEPT ![w] = static_color]
    /\ pc' = [pc EXCEPT ![w] = "gs_bri"]
    /\ UNCHANGED <<loopRest, cur, snap, nxt, sendVars, tickGhost>>
    /\ UNCHANGED harnessVars

\* _gen_static lines 287-288: bri = self.brightness and the list returned, then
\* the blend
StaticReadBrightness(w) ==
    /\ pc[w] = "gs_bri"
    /\ BlendInto(w, gen_static(gsRgb[w], brightness))
    /\ gsRgb' = [gsRgb EXCEPT ![w] = NoColor]
    /\ acq' = [acq EXCEPT ![w] = "none"]
    /\ UNCHANGED <<loopRest, snap, nxt, sendVars, lastGood>>
    /\ UNCHANGED harnessVars

\* line 430, the first argument of build_and_send(self.out, cur, self.cnt, mirror)
TickReadOut(w) ==
    /\ pc[w] = "rd_out"
    /\ tout' = [tout EXCEPT ![w] = out]
    /\ pc' = [pc EXCEPT ![w] = "rd_cnt"]
    /\ UNCHANGED <<loopRest, locVars, buf, ri, handed, sent, tickGhost>>
    /\ UNCHANGED harnessVars

\* line 430, the argument self.cnt, and the buffer build_and_send builds from
\* its arguments (lines 182-202)
TickReadCnt(w) ==
    /\ pc[w] = "rd_cnt"
    /\ buf' = [buf EXCEPT ![w] = BuildBuf(cur[w], cnt, snap[w].mirror)]
    /\ ri' = [ri EXCEPT ![w] = 0]
    /\ handed' = [handed EXCEPT ![w] = << >>]
    /\ sent' = [sent EXCEPT ![w] = << >>]
    /\ snap' = [snap EXCEPT ![w] = NoSnap]
    /\ pc' = [pc EXCEPT ![w] = "set"]
    /\ UNCHANGED <<loopRest, cur, gsRgb, nxt, tout, tickGhost>>
    /\ UNCHANGED harnessVars

\* line 431, the right-hand side: (self.cnt + 1) & 0xFF
TickPostRead(w) ==
    /\ pc[w] = "post"
    /\ nxt' = [nxt EXCEPT ![w] = (cnt + 1) % 256]
    /\ pc' = [pc EXCEPT ![w] = "store"]
    /\ UNCHANGED <<loopRest, cur, snap, gsRgb, sendVars, tickGhost>>
    /\ UNCHANGED harnessVars

\* line 431, the assignment to self.cnt, then lines 435-444
TickPostWrite(w) ==
    /\ pc[w] = "store"
    /\ cnt' = nxt[w]
    /\ nxt' = [nxt EXCEPT ![w] = 0]
    /\ pc' = [pc EXCEPT ![w] = "check"]
    /\ acq' = [acq EXCEPT ![w] = "none"]
    /\ tgt' = [tgt EXCEPT ![w] = NoFrame]
    /\ prevCur' = [prevCur EXCEPT ![w] = NoFrame]
    /\ buf' = [buf EXCEPT ![w] = NoBuf]
    /\ handed' = [handed EXCEPT ![w] = << >>]
    /\ sent' = [sent EXCEPT ![w] = << >>]
    /\ ri' = [ri EXCEPT ![w] = 0]
    /\ UNCHANGED <<calls, cfgVars, tkVars, running, thread, sessVars, devVars, op, raw,
                   cur, snap, gsRgb, tout, sentCnts, sessionFailed, lastGood>>
    /\ UNCHANGED harnessVars

loop(w) ==
    \/ LoopExit(w)
    \/ LoopTest(w)
    \/ LoopReadMode(w)
    \/ LoopReadBrightness(w)
    \/ LoopReadSmooth(w)
    \/ LoopReadMirror(w)
    \/ TickCaptured(w)
    \/ TickCaptureFailed(w)
    \/ StaticReadColor(w)
    \/ StaticReadBrightness(w)
    \/ TickReadOut(w)
    \/ TickReadCnt(w)
    \/ TickPostRead(w)
    \/ TickPostWrite(w)

IdleEngine ==
    /\ InitEngine
    /\ present = FALSE

\* the handlers of AmbilightGUI that change the Tk variables or write
\* configuration fields of the engine
widgets ==
    \/ ModeBox
    \/ BriSlider
    \/ SmoothSlider
    \/ MirrorCheck
    \/ OnModeChange
    \/ PickColor
    \/ UpdateLoopBrightness
    \/ UpdateLoopSmooth
    \/ UpdateLoopMirror
    \/ UpdateLoopMode

Next ==
    \/ widgets
    \/ Unplug
    \/ Replug
    \/ start
    \/ stop
    \/ disconnect
    \/ \E t \in Threads : SetRawData(t)
    \/ \E t \in Threads : SendReport(t)
    \/ \E w \in Workers : loop(w)

Init ==
    /\ InitEngine
    /\ IdleEnc
    /\ IdleSm
    /\ IdleFx
    /\ IdleSamp
    /\ IdlePace
    /\ IdleCrop

Spec == Init /\ [][Next]_vars

(***************************************************************************)
(* The runs of Spec are explored in families of bounded runs:              *)
(*   SpecStatic   one call and up to MaxCnt frames; the mode box, the      *)
(*                brightness and smoothing sliders and _update_loop;       *)
(*   SpecCapture  one call and up to MaxCnt frames in the capture mode;    *)
(*                the sliders, the mirror check box and _update_loop, the  *)
(*                device unplugged and plugged in;                         *)
(*   SpecCalls    up to MaxPairCalls calls and MaxPairCnt frames; the mode *)
(*                box and the colour button;                               *)
(*   SpecThreads  up to MaxCalls calls and MaxPairCnt frames in the        *)
(*                capture mode, the configuration left as constructed;     *)
(*   SpecCancel   up to MaxCancelCalls calls and MaxPairCnt frames in the  *)
(*                capture mode, the worker threads scheduled fairly.       *)
(***************************************************************************)
\* one call, a start(); the running flag is never cleared by a call, so no
\* worker takes the loop's exit
NextStatic ==
    \/ ModeBox
    \/ OnModeChange
    \/ BriSlider
    \/ SmoothSlider
    \/ UpdateLoopBrightness
    \/ UpdateLoopSmooth
    \/ UpdateLoopMirror
    \/ UpdateLoopMode
    \/ Len(calls) < MaxFrameCalls /\ StartNoDevice
    \/ Len(calls) < MaxFrameCalls /\ StartRun
    \/ \E t \in Threads : SetRawData(t)
    \/ \E t \in Threads : SendReport(t)
    \/ \E w \in Workers : LoopTest(w)
    \/ \E w \in Workers : LoopReadMode(w)
    \/ \E w \in Workers : LoopReadBrightness(w)
    \/ \E w \in Workers : LoopReadSmooth(w)
    \/ \E w \in Workers : LoopReadMirror(w)
    \/ \E w \in Workers : TickCaptured(w)
    \/ \E w \in Workers : TickCaptureFailed(w)
    \/ \E w \in Workers : StaticReadColor(w)
    \/ \E w \in Workers : StaticReadBrightness(w)
    \/ \E w \in Workers : TickReadOut(w)
    \/ \E w \in Workers : TickReadCnt(w)
    \/ \E w \in Workers : TickPostRead(w)
    \/ \E w \in Workers : TickPostWrite(w)

SpecStatic == Init /\ [][NextStatic]_vars

NextCapture ==
    \/ BriSlider
    \/ SmoothSlider
    \/ MirrorCheck
    \/ UpdateLoopBrightness
    \/ UpdateLoopSmooth
    \/ UpdateLoopMirror
    \/ UpdateLoopMode
    \/ Unplug
    \/ Replug
    \/ Len(calls) < MaxFrameCalls /\ StartNoDevice
    \/ Len(calls) < MaxFrameCalls /\ StartRun
    \/ \E t \in Threads : SetRawData(t)
    \/ \E t \in Threads : SendReport(t)
    \/ \E w \in Workers : LoopTest(w)
    \/ \E w \in Workers : LoopReadMode(w)
    \/ \E w \in Workers : LoopReadBrightness(w)
    \/ \E w \in Workers : LoopReadSmooth(w)
    \/ \E w \in Workers : LoopReadMirror(w)
    \/ \E w \in Workers : TickCaptured(w)
    \/ \E w \in Workers : TickCaptureFailed(w)
    \/ \E w \in Workers : TickReadOut(w)
    \/ \E w \in Workers : TickReadCnt(w)
    \/ \E w \in Workers : TickPostRead(w)
    \/ \E w \in Workers : TickPostWrite(w)

SpecCapture == Init /\ [][NextCapture]_vars

NextCalls ==
    \/ ModeBox
    \/ OnModeChange
    \/ PickColor
    \/ Unplug
    \/ Replug
    \/ Len(calls) < MaxPairCalls /\ StartWhileRunning
    \/ Len(calls) < MaxPairCalls /\ StartNoDevice
    \/ Len(calls) < MaxPairCalls /\ StartRun
    \/ Len(calls) < MaxPairCalls /\ StopNoThread
    \/ Len(calls) < MaxPairCalls /\ StopBegin
    \/ StopJoined
    \/ StopJoinTimeout
    \/ StopReturn
    \/ Len(calls) < MaxPairCalls /\ DisconnectBegin
    \/ DisconnectClose
    \/ DisconnectNoDevice
    \/ \E t \in Threads : SetRawData(t)
    \/ \E t \in Threads : SendReport(t)
    \/ \E w \in Workers : LoopExit(w)
    \/ \E w \in Workers : cnt < MaxPairCnt /\ LoopTest(w)
    \/ \E w \in Workers : LoopReadMode(w)
    \/ \E w \in Workers : LoopReadBrightness(w)
    \/ \E w \in Workers : LoopReadSmooth(w)
    \/ \E w \in Workers : LoopReadMirror(w)
    \/ \E w \in Workers : TickCaptured(w)
    \/ \E w \in Workers : TickCaptureFailed(w)
    \/ \E w \in Workers : StaticReadColor(w)
    \/ \E w \in Workers : StaticReadBrightness(w)
    \/ \E w \in Workers : TickReadOut(w)
    \/ \E w \in Workers : TickReadCnt(w)
    \/ \E w \in Workers : TickPostRead(w)
    \/ \E w \in Workers : TickPostWrite(w)

SpecCalls == Init /\ [][NextCalls]_vars

\* the steps of worker w in the capture mode, at most MaxPairCnt frames
captureLoop(w) ==
    \/ SetRawData(w)
    \/ SendReport(w)
    \/ LoopExit(w)
    \/ cnt < MaxPairCnt /\ LoopTest(w)
    \/ LoopReadMode(w)
    \/ LoopReadBrightness(w)
    \/ LoopReadSmooth(w)
    \/ LoopReadMirror(w)
    \/ TickCaptured(w)
    \/ TickCaptureFailed(w)
    \/ TickReadOut(w)
    \/ TickReadCnt(w)
    \/ TickPostRead(w)
    \/ TickPostWrite(w)

NextThreads ==
    \/ Unplug
    \/ Replug
    \/ start
    \/ stop
    \/ disconnect
    \/ SetRawData(Main)
    \/ SendReport(Main)
    \/ \E w \in Workers : captureLoop(w)

SpecThreads == Init /\ [][NextThreads]_vars

\* the runs checked for termination of the loop
NextCancel ==
    \/ Unplug
    \/ Replug
    \/ Len(calls) < MaxCancelCalls /\ StartWhileRunning
    \/ Len(calls) < MaxCancelCalls /\ StartNoDevice
    \/ Len(calls) < MaxCancelCalls /\ StartRun
    \/ Len(calls) < MaxCancelCalls /\ StopNoThread
    \/ Len(calls) < MaxCancelCalls /\ StopBegin
    \/ StopJoined
    \/ StopJoinTimeout
    \/ StopReturn
    \/ Len(calls) < MaxCancelCalls /\ DisconnectBegin
    \/ DisconnectClose
    \/ DisconnectNoDevice
    \/ SetRawData(Main)
    \/ SendReport(Main)
    \/ \E w \in Workers : captureLoop(w)

\* every thread inside _loop or build_and_send is scheduled again and again
SpecCancel ==
    /\ Init
    /\ [][NextCancel]_vars
    /\ \A w \in Workers : WF_vars(captureLoop(w))

(***************************************************************************)
(* Specifications of the harnesses.                                        *)
(***************************************************************************)
NextEnc ==
    \/ EncSend /\ UNCHANGED <<varsSm, varsFx, varsSamp, varsPace, varsCrop, varsEng>>
    \/ EncMirrorFrame /\ UNCHANGED <<varsSm, varsFx, varsSamp, varsPace, varsCrop, varsEng>>
    \/ DxBuildBuffer /\ UNCHANGED <<varsSm, varsFx, varsSamp, varsPace, varsCrop, varsEng>>

InitEncSpec ==
    /\ InitEnc
    /\ IdleSm
    /\ IdleFx
    /\ IdleSamp
    /\ IdlePace
    /\ IdleCrop
    /\ IdleEngine

SpecEnc == InitEncSpec /\ [][NextEnc]_vars

NextSmooth == SmoothTick /\ UNCHANGED <<varsEnc, varsFx, varsSamp, varsPace, varsCrop, varsEng>>

InitSmoothSpec ==
    /\ InitSmooth
    /\ IdleEnc
    /\ IdleFx
    /\ IdleSamp
    /\ IdlePace
    /\ IdleCrop
    /\ IdleEngine

SpecSmooth == InitSmoothSpec /\ [][NextSmooth]_vars

\* the render loop keeps ticking while the engine runs
SpecSmoothFair == SpecSmooth /\ WF_vars(NextSmooth)

NextFx ==
    \/ FxStatic /\ UNCHANGED <<varsEnc, varsSm, varsSamp, varsPace, varsCrop, varsEng>>
    \/ FxRainbow /\ UNCHANGED <<varsEnc, varsSm, varsSamp, varsPace, varsCrop, varsEng>>
    \/ FxBreathing /\ UNCHANGED <<varsEnc, varsSm, varsSamp, varsPace, varsCrop, varsEng>>
    \/ FxCycle /\ UNCHANGED <<varsEnc, varsSm, varsSamp, varsPace, varsCrop, varsEng>>

InitFxSpec ==
    /\ InitFx
    /\ IdleEnc
    /\ IdleSm
    /\ IdleSamp
    /\ IdlePace
    /\ IdleCrop
    /\ IdleEngine

SpecFx == InitFxSpec /\ [][NextFx]_vars

NextSamp == SampleFrame /\ UNCHANGED <<varsEnc, varsSm, varsFx, varsPace, varsCrop, varsEng>>

InitSampSpec ==
    /\ InitSamp
    /\ IdleEnc
    /\ IdleSm
    /\ IdleFx
    /\ IdlePace
    /\ IdleCrop
    /\ IdleEngine

SpecSamp == InitSampSpec /\ [][NextSamp]_vars

NextPace == PaceTick /\ UNCHANGED <<varsEnc, varsSm, varsFx, varsSamp, varsCrop, varsEng>>

InitPaceSpec ==
    /\ InitPace
    /\ IdleEnc
    /\ IdleSm
    /\ IdleFx
    /\ IdleSamp
    /\ IdleCrop
    /\ IdleEngine

SpecPace == InitPaceSpec /\ [][NextPace]_vars

NextCrop ==
    \/ OnAspectChange /\ UNCHANGED <<varsEnc, varsSm, varsFx, varsSamp, varsPace, varsEng>>
    \/ MoveSlider /\ UNCHANGED <<varsEnc, varsSm, varsFx, varsSamp, varsPace, varsEng>>
    \/ UpdateLoop /\ UNCHANGED <<varsEnc, varsSm, varsFx, varsSamp, varsPace, varsEng>>
    \/ OnCanvasClick /\ UNCHANGED <<varsEnc, varsSm, varsFx, varsSamp, varsPace, varsEng>>
    \/ OnCanvasDrag /\ UNCHANGED <<varsEnc, varsSm, varsFx, varsSamp, varsPace, varsEng>>

InitCropSpec ==
    /\ InitCrop
    /\ IdleEnc
    /\ IdleSm
    /\ IdleFx
    /\ IdleSamp
    /\ IdlePace
    /\ IdleEngine

SpecCrop == InitCropSpec /\ [][NextCrop]_vars

(***************************************************************************)
(* Claims about the protocol encoder (checked under SpecEnc).              *)
(***************************************************************************)
EncSent == encReports # << >>

EncBuf == UnReport(encReports)

\* C2: the three reports produced for a LedFrame, counter and mirror flag decode
\* back to exactly the 36 colours of that LedFrame, each report carries 64 buffer
\* bytes, and buffer bytes 0..6 are 0x53 0x43 0x00 0xB1 counter 0x80 0x01.
C2_RoundTrip ==
    EncSent =>
        /\ Len(encReports) = 3
        /\ \A i \in 1..3 : Len(encReports[i]) = ChunkLen + 1
        /\ Decode(encReports, encMirror) = encLeds
        /\ << EncBuf[0], EncBuf[1], EncBuf[2], EncBuf[3], EncBuf[4], EncBuf[5], EncBuf[6] >>
             = << 83, 67, 0, 177, encCnt, 128, 1 >>

C2_Witness ==
    /\ EncSent
    /\ encMirror
    /\ encCnt = 255
    /\ encLeds = Ramp(1)

\* C5 as stated: with mirror enabled the assembled sequence is
\* reverse(leds[24..36)) ++ reverse(leds[12..24)) ++ leds[0..12).
C5_Original ==
    (EncSent /\ encMirror) =>
        \A k \in 0..(N - 1) :
            /\ AssembledOf(EncBuf)[k]         = encLeds[35 - k]
            /\ AssembledOf(EncBuf)[N + k]     = encLeds[23 - k]
            /\ AssembledOf(EncBuf)[2 * N + k] = encLeds[k]

\* C5 amended: with mirror enabled the assembled sequence is
\* leds[24..36) ++ reverse(leds[12..24)) ++ reverse(leds[0..12)): the right group
\* in its own order takes the left position, the top group is reversed, and the
\* left group reversed takes the right position.
C5_MirrorAssembly ==
    (EncSent /\ encMirror) =>
        \A k \in 0..(N - 1) :
            /\ AssembledOf(EncBuf)[k]         = encLeds[24 + k]
            /\ AssembledOf(EncBuf)[N + k]     = encLeds[23 - k]
            /\ AssembledOf(EncBuf)[2 * N + k] = encLeds[11 - k]

C5_Witness ==
    /\ EncSent
    /\ encMirror
    /\ encLeds = OneHot(30, <<255, 0, 80>>)
    /\ AssembledOf(EncBuf)[6] = <<255, 0, 80>>

\* C6: applying the mirror transformation M twice gives back the original frame,
\* hence the original assembled order and the original encoded bytes.
C6_MirrorInvolution ==
    (encFlips = 2) =>
        /\ encLeds = encOrig
        /\ Assemble(encLeds, FALSE) = Assemble(encOrig, FALSE)
        /\ EncSent => encReports = Reports(BuildBuf(encOrig, encCnt, encMirror))

C6_Witness ==
    /\ encFlips = 2
    /\ EncSent
    /\ encOrig = Ramp(0)
    /\ MirrorFrame(encOrig) # encOrig

\* C7: bytes 7..9 are assembled[0]; bytes 10..189 are 36 entries of two index
\* bytes and R,G,B covering assembled[1..13), assembled[12..24), assembled[24..36);
\* the 72 index bytes in stream order are 1..72; bytes 190..191 are zero.
C7_WireLayout ==
    EncSent =>
        LET a == Assemble(encLeds, encMirror)
            src(e) == IF e < 12 THEN e + 1 ELSE e
        IN  /\ << EncBuf[7], EncBuf[8], EncBuf[9] >> = a[0]
            /\ \A e \in 0..35 :
                /\ EncBuf[10 + 5 * e]     = 2 * e + 1
                /\ EncBuf[10 + 5 * e + 1] = 2 * e + 2
                /\ << EncBuf[10 + 5 * e + 2], EncBuf[10 + 5 * e + 3], EncBuf[10 + 5 * e + 4] >>
                     = a[src(e)]
            /\ EncBuf[190] = 0
            /\ EncBuf[191] = 0

C7_Witness ==
    /\ EncSent
    /\ ~encMirror
    /\ encLeds = Ramp(2)
    /\ Entry(EncBuf, 11) = Entry(EncBuf, 12)
    /\ Entry(EncBuf, 11) = encLeds[12]

(***************************************************************************)
(* Claims about the temporal smoother (SpecSmooth, SpecSmoothFair).        *)
(***************************************************************************)
\* C3 as stated: for every smoothing factor in [0,1), every starting frame and
\* every constant target, repeating the blend step eventually makes cur equal
\* to the target in every channel (and with alpha = 0 after exactly one tick).
C3_Original ==
    /\ <>(smCur = smTarget)
    /\ [](smAlpha = 0 /\ smTicks >= 1 => smCur = smTarget)

(***************************************************************************)
(* Claims about the effect generators (SpecFx).                            *)
(***************************************************************************)
\* C4 as stated: every effect generator returns a 36-entry LedFrame whose 36
\* entries are the same colour.
C4_Original ==
    (fxMode # "none") => (DOMAIN fxOut = 0..35 /\ IsUniform(fxOut))

\* C4 amended: every effect generator returns a 36-entry LedFrame; Static,
\* Breathing and Color Cycle give all 36 entries the same colour; Rainbow is
\* position-aware: entry i has its hue advanced by i/36 of the colour circle, so
\* for every brightness above 0 its 36 entries are not all the same colour, and
\* entry 0 is the colour the position-independent hue t*speed*0.3 gives.
C4_EffectFrames ==
    (fxMode # "none") =>
        /\ DOMAIN fxOut = 0..35
        /\ \A i \in 0..35 : \A c \in 1..3 : fxOut[i][c] \in 0..255
        /\ fxMode \in {"Statisch", "Breathing", "Color Cycle"} => IsUniform(fxOut)
        /\ fxMode = "Rainbow" =>
            /\ fxOut[0] = gen_rainbow_uniform(fxT, fxSpeed, fxBri)[0]
            /\ fxBri > 0 => ~IsUniform(fxOut)
            /\ fxBri = 0 => fxOut = BlackFrame

C4_Witness ==
    /\ fxMode = "Rainbow"
    /\ fxBri = 100
    /\ fxOut[0] # fxOut[12]
    /\ fxOut[12] # fxOut[24]

(***************************************************************************)
(* Claims about LedEngine (checked under SpecStatic, SpecCapture,          *)
(* SpecCalls and SpecThreads).                                             *)
(***************************************************************************)
\* C1 as stated: the counter bytes (buffer byte 4) of every two consecutive
\* completely sent logical frames differ by exactly +1 modulo 256, the frames
\* of stop() and disconnect() included.
C1_Original ==
    (Len(sentCnts) = 2) => (sentCnts[2] = (sentCnts[1] + 1) % 256)

\* C8 as stated: every logical frame is handed to the transport as three
\* reports in the order i = 0, 1, 2; the report the i-th send() of a
\* build_and_send transmits is 65 bytes long, a zero report-ID byte followed by
\* buffer bytes [64*i, 64*i+64) of that frame, so report i+1 of a frame is never
\* sent before report i of the same frame.
C8_Original ==
    \A t \in Threads :
        \A i \in 1..Len(sent[t]) :
            /\ Len(sent[t][i]) = 65
            /\ sent[t][i][1] = 0
            /\ \A j \in 1..64 : sent[t][i][j + 1] = buf[t][64 * (i - 1) + j - 1]

\* C9 as stated: after a transport send has failed during a tick the engine
\* considers the device disconnected (connected = False) until a later start()
\* opens the device again.
C9_Original ==
    sessionFailed => ~connected

\* C10 as stated: in a capture mode, when the frame acquisition fails at a tick,
\* the target fed to the smoother is the sampled (pre-smoothing) frame of the
\* most recent tick whose acquisition succeeded.
C10_Original ==
    \A w \in Workers :
        (acq[w] = "fail" /\ lastGood[w] # NoFrame) => tgt[w] = lastGood[w]

\* C10 amended: in a capture mode, when the frame acquisition fails at a tick,
\* the target fed to the smoother is the smoother's own previous output (all
\* black before the first tick), so the output of that tick equals the previous
\* output and is not black unless that was; the failure does not end the loop,
\* and the frame built from the held output is handed to the transport that tick.
C10_HoldsOutput ==
    \A w \in Workers :
        (acq[w] = "fail") =>
            /\ tgt[w] = prevCur[w]
            /\ cur[w] = prevCur[w]
            /\ pc[w] \in {"rd_out", "rd_cnt", "set", "xmit", "post", "store"}
            /\ pc[w] \in {"set", "xmit", "post", "store"} =>
                  \/ buf[w] = BuildBuf(prevCur[w], buf[w][4], mirror)
                  \/ buf[w] = BuildBuf(prevCur[w], buf[w][4], ~mirror)

C10_Witness ==
    \E w \in Workers :
        /\ acq[w] = "fail"
        /\ pc[w] = "post"
        /\ Len(sent[w]) = 3
        /\ lastGood[w] # NoFrame
        /\ tgt[w] # lastGood[w]
        /\ tgt[w] # BlackFrame

\* the last call made on the engine, "none" before the first
LastCall == IF calls = << >> THEN "none" ELSE calls[Len(calls)]

\* the threads that are inside _loop
Alive == { w \in Workers : pc[w] \notin {"new", "done"} }

\* the controlling thread is inside none of start / stop / disconnect
MainReturned == pc[Main] \in {"idle"} \cup UpdPcs

\* stop() was the last call, the engine was connected, and stop() has returned
StopReturned ==
    /\ LastCall = "stop"
    /\ MainReturned

\* C11 as stated: after stop() has returned on a connected engine no worker
\* sends a further report to the transport until a later start(), so the black
\* frame of stop() stays the last frame handed over.
C11_Original ==
    [][(StopReturned /\ connected) =>
          \A w \in Workers : Len(sent'[w]) <= Len(sent[w])]_vars

\* C12 as stated: at every moment at most one thread is executing _loop.
C12_Original ==
    Cardinality(Alive) <= 1

\* C13: a start() that finds no device on an engine that is not running and not
\* connected changes nothing: running and connected stay False, no thread is
\* created, and nothing is built for or handed to the transport.
C13_StartWithoutDevice ==
    [][(/\ pc[Main] = "idle"
        /\ ~running
        /\ ~connected
        /\ ~present
        /\ calls' = Append(calls, "start")) =>
          /\ running' = FALSE
          /\ connected' = FALSE
          /\ device' = FALSE
          /\ thread' = thread
          /\ pc' = pc
          /\ buf' = buf
          /\ raw' = raw
          /\ handed' = handed
          /\ sent' = sent
          /\ sentCnts' = sentCnts]_vars

C13_Witness ==
    /\ calls = << "start" >>
    /\ ~present
    /\ ~running
    /\ ~connected
    /\ thread = 0
    /\ \A w \in Workers : pc[w] = "new"
    /\ \A t \in Threads : handed[t] = << >> /\ sent[t] = << >>
    /\ raw = NoReport

\* C14: in static mode with base colour (255,0,80), brightness 100 % and
\* smoothing 0 %, every tick, whatever cur was before it, makes cur exactly
\* 36 x (255,0,80), builds a buffer whose three reports decode to exactly
\* 36 x (255,0,80), and, in a run without stop() and disconnect(), has sent
\* three reports that decode to exactly 36 x (255,0,80) when its
\* build_and_send returns.
C14_StaticExact ==
    /\ [][\A w \in Workers :
            /\ (/\ pc[w] = "gs_bri"
                /\ pc'[w] = "rd_out"
                /\ snap[w].alpha = 0
                /\ gsRgb[w] = <<255, 0, 80>>
                /\ brightness = 100) =>
                   cur'[w] = Uniform(<<255, 0, 80>>)
            /\ (/\ pc[w] = "rd_cnt"
                /\ pc'[w] = "set"
                /\ snap[w].mode = "Statisch"
                /\ snap[w].alpha = 0
                /\ tgt[w] = Uniform(<<255, 0, 80>>)) =>
                   Decode(Reports(buf'[w]), snap[w].mirror) = Uniform(<<255, 0, 80>>)]_vars
    /\ [](\A w \in Workers :
            (/\ pc[w] = "post"
             /\ acq[w] = "none"
             /\ cur[w] = Uniform(<<255, 0, 80>>)) =>
                /\ Len(sent[w]) = 3
                /\ Decode(sent[w], FALSE) = Uniform(<<255, 0, 80>>))

C14_Witness ==
    \E w \in Workers :
        /\ pc[w] = "post"
        /\ cnt >= 1
        /\ mode = "Statisch"
        /\ brightness = 100
        /\ smooth = 0
        /\ acq[w] = "none"
        /\ tgt[w] = Uniform(<<255, 0, 80>>)
        /\ prevCur[w] = Uniform(<<255, 0, 80>>)
        /\ cur[w] = Uniform(<<255, 0, 80>>)
        /\ Len(sent[w]) = 3
        /\ Decode(sent[w], mirror) = Uniform(<<255, 0, 80>>)

(***************************************************************************)
(* Claims about the zone sampler (checked under SpecSamp).                 *)
(***************************************************************************)
Sampled == sfOut # NotSampled

\* C15: for every frame of at least 1x1 pixels, every valid crop, every edge
\* depth and every brightness, _sample_from_frame returns exactly 36 colours
\* with every channel an integer in 0..255; a strip with fewer than 12 pixels
\* along its long axis yields 12 identical colours, not fewer entries.
C15_SamplerShape ==
    Sampled =>
        LET g == RegionOf(sfFrame, sfCrop, sfEdge)
        IN  /\ DOMAIN sfOut = 0..35
            /\ \A i \in 0..35 : \A c \in 1..3 : sfOut[i][c] \in 0..255
            /\ g.rh < 12 =>
                /\ \A i \in 0..11 : sfOut[i] = sfOut[0]
                /\ \A i \in 24..35 : sfOut[i] = sfOut[24]
            /\ g.rw < 12 => \A i \in 12..23 : sfOut[i] = sfOut[12]

C15_Witness ==
    /\ Sampled
    /\ sfFrame.kind = "grad"
    /\ sfFrame.h = 2
    /\ sfFrame.w = 3
    /\ sfBri = 100
    /\ sfOut[0] = sfOut[11]
    /\ sfOut[12] = sfOut[23]
    /\ sfOut[0] # sfOut[24]
    /\ sfOut[0] # Black

\* C16: for a frame whose pixels all have the colour (r, g, b), every crop and
\* every edge depth, _sample_from_frame returns the colour
\* (trunc(r*bri), trunc(g*bri), trunc(b*bri)) for all 36 zones; an all-white
\* frame with no crop and edge depth 10 % yields 36 x (255,255,255) scaled by
\* the brightness.
C16_UniformFrame ==
    (Sampled /\ sfFrame.kind = "uniform") =>
        sfOut = Uniform(<< Trunc(sfFrame.col[1] * sfBri, 100),
                           Trunc(sfFrame.col[2] * sfBri, 100),
                           Trunc(sfFrame.col[3] * sfBri, 100) >>)

C16_Witness ==
    /\ Sampled
    /\ sfFrame.kind = "uniform"
    /\ sfFrame.col = <<255, 255, 255>>
    /\ sfFrame.h = 25
    /\ sfCrop = <<0, 0, 0, 0>>
    /\ sfEdge = 10
    /\ sfBri = 80
    /\ sfOut = Uniform(<<204, 204, 204>>)

(***************************************************************************)
(* Claims about the pacing of the render loop (checked under SpecPace).    *)
(***************************************************************************)
\* C17: in every tick the loop sleeps for max(0, 1/target_fps - elapsed): it
\* calls time.sleep exactly when elapsed is below the budget, and then for at
\* least the rest of the budget, so the time between the starts of two
\* consecutive ticks is at least 1/target_fps; when elapsed is at least the
\* budget no sleep occurs.
C17_Pacing ==
    (paceGap # NoGap) =>
        LET ft == FrameTime(paceFps)
        IN  /\ ft * paceFps = 720
            /\ paceSleeps <=> (paceElapsed < ft)
            /\ paceSleeps => paceSlept >= ft - paceElapsed
            /\ ~paceSleeps => paceSlept = 0
            /\ paceGap = paceElapsed + paceOver + paceSlept
            /\ paceGap >= ft

C17_Witness ==
    /\ paceGap # NoGap
    /\ paceFps = 90
    /\ paceElapsed = 3
    /\ paceSleeps
    /\ paceSlept = 5
    /\ paceGap = 8

(***************************************************************************)
(* Further claims about LedEngine (checked under SpecStatic, SpecCalls,    *)
(* SpecCancel).                                                            *)
(***************************************************************************)
\* C18 as stated: no thread other than the render-loop worker calls the
\* transport while a worker thread is alive; stop() and disconnect() send their
\* frame only after the worker has terminated.
C18_Original ==
    (pc[Main] \in {"set", "xmit"}) => (Alive = {})

\* C19 as stated: every configuration value a tick uses is the value the field
\* held at the tick's snapshot step (lines 374-377); here, the brightness a
\* static tick scales the base colour with is the brightness the tick read at
\* line 375.
C19_Original ==
    [][\A w \in Workers :
          (pc[w] = "gs_bri" /\ pc'[w] = "rd_out" /\ snap[w].mode = "Statisch") =>
              tgt'[w] = gen_static(gsRgb[w], snap[w].bri)]_vars

\* C20 as stated: after stop() has completed the device session is destroyed:
\* the handle has been closed, device is None and connected is False.
C20_Original ==
    StopReturned => (~device /\ ~connected /\ ~handleOpen)

\* the place of a thread in the order of one pass of _loop: the reads of the
\* configuration, the frame, the three reports, the counter, and then the
\* test of self.running at the tick boundary
TickOrder(p, i) ==
    CASE p = "new" -> 0
      [] p = "rd_mode" -> 1
      [] p = "rd_bri" -> 2
      [] p = "rd_alpha" -> 3
      [] p = "rd_mirror" -> 4
      [] p = "tick" -> 5
      [] p = "gs_bri" -> 6
      [] p = "rd_out" -> 7
      [] p = "rd_cnt" -> 8
      [] p = "set" -> 9 + 2 * i
      [] p = "xmit" -> 10 + 2 * i
      [] p = "post" -> 15
      [] p = "store" -> 16
      [] p = "check" -> 17
      [] OTHER -> 18

\* C21: the running flag is tested only at the tick boundary: while running is
\* False a worker at the tick boundary does not start a tick, and a worker
\* inside a tick only moves forward through it, so it goes on only with the
\* tick it is in (one build_and_send of at most three reports), and unless
\* running is set again it then leaves the loop.
C21_Cancellation ==
    /\ [][\A w \in Workers :
            ~running =>
                /\ pc[w] = "check" => pc'[w] \in {"check", "done"}
                /\ TickOrder(pc'[w], ri'[w]) >= TickOrder(pc[w], ri[w])
                /\ Len(sent'[w]) > Len(sent[w]) =>
                       (pc[w] = "xmit" /\ Len(sent'[w]) <= 3)]_vars
    /\ \A w \in Workers : (~running /\ w \in Alive) ~> (pc[w] = "done" \/ running)

C21_Witness ==
    /\ ~running
    /\ calls = << "start", "stop" >>
    /\ MainReturned
    /\ \E w \in Workers :
        /\ pc[w] = "post"
        /\ Len(sent[w]) = 3

(***************************************************************************)
(* Further claims about the zone sampler (checked under SpecSamp).         *)
(***************************************************************************)
\* C22 as stated: the downsampling stride equals
\* max(1, floor(min(cropped width, cropped height) / 360)) for every frame size
\* and crop region.
C22_Original ==
    Sampled =>
        LET g == RegionOf(sfFrame, sfCrop, sfEdge)
        IN  g.scale = Max2(1, Min2(g.cw, g.ch) \div 360)

\* C23: with at least 12 rows in the sampled region, entry i in [0,12) is the
\* left-strip zone counted from the bottom (entry 0 the bottom-most, entry 11 the
\* top-most zone of floor(rows/12) rows) and entry 24+i is the i-th right-strip
\* zone from the top; with at least 12 columns, entry 12+i is the i-th top-strip
\* zone from the left; each is the brightness-scaled mean of exactly the pixels
\* of its slice of the strip.
C23_ZoneOrder ==
    Sampled =>
        LET g    == RegionOf(sfFrame, sfCrop, sfEdge)
            lw   == Min2(g.edge, g.rw)
            th   == Min2(g.edge, g.rh)
            rc0  == Max2(0, g.rw - g.edge)
            rows == g.rh \div 12
            cols == g.rw \div 12
            zone(r0, nr, c0, nc) ==
                Clamped(MeanColor(sfFrame, g, Strip(r0, nr, c0, nc), sfBri))
        IN  /\ g.rh >= 12 =>
                \A i \in 0..11 :
                    /\ sfOut[i] = zone((11 - i) * rows, rows, 0, lw)
                    /\ sfOut[24 + i] = zone(i * rows, rows, rc0, g.rw - rc0)
            /\ g.rw >= 12 =>
                \A i \in 0..11 : sfOut[12 + i] = zone(0, th, i * cols, cols)

C23_Witness ==
    /\ Sampled
    /\ sfFrame = [h |-> 25, w |-> 24, kind |-> "grad", col |-> Black, seed |-> 0]
    /\ sfCrop = <<0, 0, 0, 0>>
    /\ sfEdge = 6
    /\ sfBri = 100
    /\ sfOut[0] = <<129, 11, 67>>
    /\ sfOut[11] = <<11, 0, 65>>
    /\ sfOut[12] = <<11, 0, 65>>
    /\ sfOut[23] = <<121, 11, 23>>
    /\ sfOut[24] = <<121, 11, 23>>
    /\ sfOut[35] = <<239, 186, 89>>

(***************************************************************************)
(* Claims about the crop configuration (checked under SpecCrop).           *)
(***************************************************************************)
\* a fraction <<num, den>> is in [0, 1)
InUnit(f) == 0 <= f[1] /\ f[1] < f[2]

\* f + g < 1
SumBelowOne(f, g) ==
    IF f[2] = g[2] THEN f[1] + g[1] < f[2]
    ELSE f[1] * g[2] + g[1] * f[2] < f[2] * g[2]

\* C24 as stated: every crop tuple written into LedEngine.crop has each fraction
\* in [0,1) and satisfies left + right < 1 and top + bottom < 1.
C24_Original ==
    /\ \A k \in 1..4 : InUnit(cfCrop[k])
    /\ SumBelowOne(cfCrop[1], cfCrop[3])
    /\ SumBelowOne(cfCrop[2], cfCrop[4])

(***************************************************************************)
(* Further claims about the temporal smoother (checked under SpecSmooth).  *)
(***************************************************************************)
\* C26: for targets with channels in [0,255] and smoothing factors in [0,1),
\* every blend step leaves every channel of cur an integer in [0,255] that lies
\* between its previous value and the target: the blend never overshoots.
C26_BlendInRange ==
    [][\A i \in 0..(NumLeds - 1) : \A ch \in 1..3 :
          LET c == smCur[i][ch]
              t == smTarget[i][ch]
              n == smCur'[i][ch]
          IN  /\ n \in 0..255
              /\ Min2(c, t) <= n
              /\ n <= Max2(c, t)]_vars

C26_Witness ==
    /\ smTicks = 1
    /\ smAlpha = 50
    /\ smTarget = Uniform(<<255, 0, 80>>)
    /\ smCur = Uniform(<<127, 0, 40>>)

\* disconnect() was the last call and has returned
DisconnectReturned ==
    /\ LastCall = "disconnect"
    /\ MainReturned

\* C25 as stated: disconnect() on a connected engine always closes the device
\* handle and leaves device = None, out = None and connected = False, whether
\* or not sending the all-black frame succeeds.
C25_Original ==
    DisconnectReturned => (~handleOpen /\ ~device /\ ~out /\ ~connected)

\* C27 as stated: the three reports of one logical frame reach the transport
\* contiguously: while a thread has sent report 0 of its frame and not yet
\* report 2, no other thread sends a report to the transport.
C27_Original ==
    [][\A t \in Threads : \A u \in Threads \ {t} :
          (pc[t] \in {"set", "xmit"} /\ Len(sent[t]) \in 1..2) =>
              Len(sent'[u]) <= Len(sent[u])]_vars

\* C28: in a capture mode, at every tick whose frame acquisition fails, cur is
\* left as it was and the frame built for the transport is the frame of the
\* previous tick (all black if no tick preceded), whatever the smoothing
\* factor: the output is frozen while captures fail.
C28_FrozenOutput ==
    [][\A w \in Workers :
          /\ (pc[w] = "tick" /\ pc'[w] = "rd_out" /\ acq'[w] = "fail") =>
                /\ cur'[w] = cur[w]
                /\ cnt = 0 => cur[w] = BlackFrame
                /\ \A a \in SmoothPcts :
                       Blend(cur[w], HoldFrame(cur[w], lastGood[w]), a) = cur[w]
          /\ (pc[w] = "rd_cnt" /\ pc'[w] = "set" /\ acq[w] = "fail") =>
                /\ cur[w] = prevCur[w]
                /\ Decode(Reports(buf'[w]), snap[w].mirror) = prevCur[w]]_vars

C28_Witness ==
    \E w \in Workers :
        /\ acq[w] = "fail"
        /\ pc[w] = "post"
        /\ cnt >= 1
        /\ cur[w] = prevCur[w]
        /\ cur[w] # BlackFrame
        /\ Len(sent[w]) = 3
        /\ \E m \in BOOLEAN : Decode(sent[w], m) = cur[w]

(***************************************************************************)
(* Further claims about the encoders (checked under SpecEnc).              *)
(***************************************************************************)
\* C29: for every LedFrame with channels in 0..255 and every counter value,
\* DXLightController._build_buffer produces the same 192 bytes as the engine's
\* build_and_send with mirror = False hands to the transport for the same frame
\* and counter.
C29_SameWireFormat ==
    (EncSent /\ ~encMirror /\ encDx # NoDx) =>
        /\ DOMAIN encDx.buf = 0..191
        /\ encDx.buf = EncBuf
        /\ encDx.buf = BuildBuf(encLeds, encCnt, FALSE)

C29_Witness ==
    /\ EncSent
    /\ ~encMirror
    /\ encDx # NoDx
    /\ encLeds = Ramp(1)
    /\ encCnt = 255
    /\ encDx.counter = 0
    /\ encDx.buf[4] = 255
    /\ encDx.buf[189] = encLeds[35][3]

\* C30: start() while the engine is running is a no-op: it creates no second
\* worker thread, does not connect, and leaves running, thread, device, out,
\* connected, the device handle and the frame counter unchanged.
C30_StartWhileRunning ==
    [][(/\ pc[Main] = "idle"
        /\ running
        /\ calls' = Append(calls, "start")) =>
          /\ running' = running
          /\ thread' = thread
          /\ pc' = pc
          /\ device' = device
          /\ out' = out
          /\ connected' = connected
          /\ handleOpen' = handleOpen
          /\ raw' = raw
          /\ cnt' = cnt]_vars

C30_Witness ==
    /\ calls = << "start", "start" >>
    /\ running
    /\ connected
    /\ thread # 0
    /\ pc[thread] # "done"
    /\ \A w \in Workers \ {thread} : pc[w] = "new"

====
